---- MODULE Spec2Model ----
(***************************************************************************)
(* bstd: the binary codec of std/python/bstd.py and its earlier port       *)
(* ports/python/std.py.                                                    *)
(*                                                                         *)
(* Python integers are unbounded, so an integer is kept exactly: its       *)
(* magnitude is a little-endian sequence of bits with no leading zero      *)
(* (<<>> is 0, <<0, 1>> is 2), and a signed integer is a record            *)
(* [neg, mag].  Bytes, lengths and cursors are small naturals.             *)
(* A buffer is a sequence of bytes; Python's b[k] is buf[k + 1].           *)
(***************************************************************************)
EXTENDS Integers, Sequences, FiniteSets, TLC

VARIABLES
    impl,     \* the module the caller imported: "bstd" or "ports"
    vals,     \* the [t: codec, v: value] pairs the caller processes, in order
    base,     \* the cursor the caller starts every pass at
    slack,    \* bytes the caller allocated beyond the sum of the sizes
    sizes,    \* sizes[i]: what pass 1 (size) returned for vals[i]
    buf,      \* the caller's buffer
    n,        \* the caller's cursor
    idx,      \* position in vals of the next value of the running pass
    phase,    \* where the caller is in its size / marshal / skip / unmarshal passes
    log,      \* one entry per marshal / skip / unmarshal call the caller made
    cut       \* bytes the caller dropped from the end of the buffer before decoding

vars == <<impl, vals, base, slack, sizes, buf, n, idx, phase, log, cut>>

-----------------------------------------------------------------------------
(* Error kinds: BencError, plus the built-in exceptions Python raises.     *)

OVERFLOW == "OVERFLOW"
BUF_TOO_SMALL == "BUF_TOO_SMALL"
IndexError == "IndexError"
UnicodeDecodeError == "UnicodeDecodeError"
OK == ""

MAX_VARINT_LEN == 10

-----------------------------------------------------------------------------
(* Unbounded naturals as bit sequences.                                    *)

Zeros(k) == [i \in 1..k |-> 0]
Ones(k) == [i \in 1..k |-> 1]

RECURSIVE Norm(_)
Norm(x) ==
    IF x = <<>> THEN <<>>
    ELSE IF x[Len(x)] = 1 THEN x
    ELSE Norm(SubSeq(x, 1, Len(x) - 1))

Bit(x, i) == IF i <= Len(x) THEN x[i] ELSE 0

\* the natural number x, for an x known to fit TLC's integers
RECURSIVE BitsToNat(_)
BitsToNat(x) == IF x = <<>> THEN 0 ELSE x[1] + 2 * BitsToNat(Tail(x))

RECURSIVE NatToBits(_)
NatToBits(k) == IF k = 0 THEN <<>> ELSE <<k % 2>> \o NatToBits(k \div 2)

\* x >> k
Shr(x, k) == IF Len(x) <= k THEN <<>> ELSE SubSeq(x, k + 1, Len(x))
\* x << k
Shl(x, k) == IF x = <<>> THEN <<>> ELSE Zeros(k) \o x
\* x & (2^k - 1), as a natural number (k <= 8 wherever it is used)
LowBits(x, k) == BitsToNat([i \in 1..k |-> Bit(x, i)])
\* x | y
BitOr(x, y) ==
    LET m == IF Len(x) > Len(y) THEN Len(x) ELSE Len(y)
    IN  Norm([i \in 1..m |-> IF Bit(x, i) = 1 \/ Bit(y, i) = 1 THEN 1 ELSE 0])
\* x >= 0x80
Ge128(x) == Len(x) >= 8
\* x <= k for a natural number k of TLC
LeNat(x, k) == Len(x) <= 30 /\ BitsToNat(x) <= k

RECURSIVE BitsInc(_)
BitsInc(x) ==
    IF x = <<>> THEN <<1>>
    ELSE IF x[1] = 0 THEN <<1>> \o Tail(x)
    ELSE <<0>> \o BitsInc(Tail(x))

\* x - 1 for x > 0
RECURSIVE BitsDec(_)
BitsDec(x) ==
    IF x[1] = 1 THEN Norm(<<0>> \o Tail(x))
    ELSE <<1>> \o BitsDec(Tail(x))

-----------------------------------------------------------------------------
(* Python values.  Every value is a record of one shape: tag names the     *)
(* Python type, (neg, mag) an int, s the code points of a str or the bytes *)
(* of a bytes object, items the elements of a list, or the (key, value)    *)
(* pairs of a dict in insertion order.                                     *)

Val(tag, neg, mag, s, items) ==
    [tag |-> tag, neg |-> neg, mag |-> mag, s |-> s, items |-> items]
NoneV == Val("none", FALSE, <<>>, <<>>, <<>>)
IntV(neg, mag) == Val("int", neg, mag, <<>>, <<>>)
UIntV(mag) == IntV(FALSE, mag)
NatV(k) == UIntV(NatToBits(k))
BoolV(t) == Val("bool", FALSE, IF t THEN <<1>> ELSE <<>>, <<>>, <<>>)
StrV(cps) == Val("str", FALSE, <<>>, cps, <<>>)
BytesV(bs) == Val("bytes", FALSE, <<>>, bs, <<>>)
ListV(items) == Val("list", FALSE, <<>>, <<>>, items)
PairV(k, v) == Val("pair", FALSE, <<>>, <<>>, <<k, v>>)
DictV(pairs) == Val("dict", FALSE, <<>>, <<>>, pairs)

(* What an operation returns or raises: err is OK or the error raised, n   *)
(* the offset returned, b the buffer as the operation left it, v the       *)
(* decoded value, calls the number of element callbacks it made.           *)
Ret(e, off, b, v, c) == [err |-> e, n |-> off, b |-> b, v |-> v, calls |-> c]
Return(off, b) == Ret(OK, off, b, NoneV, 0)
ReturnV(off, b, v) == Ret(OK, off, b, v, 0)
Raise(e, b) == Ret(e, 0, b, NoneV, 0)

-----------------------------------------------------------------------------
(* Varint (unsigned): std/python/bstd.py                                   *)

\* the loop with "v > 0x80" for "v >= 0x80"
RECURSIVE size_uint_loop_gt(_, _)
size_uint_loop_gt(v, size) ==
    IF Ge128(v) /\ v # <<0, 0, 0, 0, 0, 0, 0, 1>>
    THEN size_uint_loop_gt(Shr(v, 7), size + 1) ELSE size + 1

RECURSIVE size_uint_loop(_, _)
size_uint_loop(v, size) ==
    IF Ge128(v) THEN size_uint_loop(Shr(v, 7), size + 1) ELSE size + 1

\* one byte more whenever the bit length is a multiple of 7
size_uint_floor(value) == 1 + (Len(value) \div 7)

size_uint(value) == size_uint_loop(value, 0)

\* writes every group without the continuation bit
RECURSIVE marshal_uint_loop_no_cont(_, _, _)
marshal_uint_loop_no_cont(v, i, b) ==
    IF Ge128(v)
    THEN IF i >= Len(b) THEN Raise(BUF_TOO_SMALL, b)
         ELSE marshal_uint_loop_no_cont(Shr(v, 7), i + 1,
                                        [b EXCEPT ![i + 1] = LowBits(v, 7)])
    ELSE IF i >= Len(b) THEN Raise(BUF_TOO_SMALL, b)
         ELSE Return(i + 1, [b EXCEPT ![i + 1] = LowBits(v, 7)])

RECURSIVE marshal_uint_loop(_, _, _)
marshal_uint_loop(v, i, b) ==
    IF Ge128(v)
    THEN IF i >= Len(b) THEN Raise(BUF_TOO_SMALL, b)
         ELSE marshal_uint_loop(Shr(v, 7), i + 1,
                                [b EXCEPT ![i + 1] = LowBits(v, 7) + 128])
    ELSE IF i >= Len(b) THEN Raise(BUF_TOO_SMALL, b)
         ELSE Return(i + 1, [b EXCEPT ![i + 1] = LowBits(v, 7)])

marshal_uint(off, b, value) == marshal_uint_loop(value, off, b)

\* accepts any terminating tenth byte
RECURSIVE unmarshal_uint_loop_any_tenth(_, _, _, _, _)
unmarshal_uint_loop_any_tenth(off, b, i, x, s) ==
    IF i >= MAX_VARINT_LEN THEN Raise(OVERFLOW, b)
    ELSE IF off + i >= Len(b) THEN Raise(BUF_TOO_SMALL, b)
    ELSE LET byte_val == b[off + i + 1] IN
         IF byte_val < 128
         THEN ReturnV(off + i + 1, b, UIntV(BitOr(x, Shl(NatToBits(byte_val), s))))
         ELSE unmarshal_uint_loop_any_tenth(off, b, i + 1,
                  BitOr(x, Shl(NatToBits(byte_val % 128), s)), s + 7)

\* accepts a 10th byte of 2 or 3
RECURSIVE unmarshal_uint_loop_wide_tenth(_, _, _, _, _)
unmarshal_uint_loop_wide_tenth(off, b, i, x, s) ==
    IF i >= MAX_VARINT_LEN THEN Raise(OVERFLOW, b)
    ELSE IF off + i >= Len(b) THEN Raise(BUF_TOO_SMALL, b)
    ELSE LET byte_val == b[off + i + 1] IN
         IF byte_val < 128
         THEN IF i = MAX_VARINT_LEN - 1 /\ byte_val > 3 THEN Raise(OVERFLOW, b)
              ELSE ReturnV(off + i + 1, b,
                           UIntV(BitOr(x, Shl(NatToBits(byte_val), s))))
         ELSE unmarshal_uint_loop_wide_tenth(off, b, i + 1,
                                  BitOr(x, Shl(NatToBits(byte_val % 128), s)), s + 7)

RECURSIVE unmarshal_uint_loop(_, _, _, _, _)
unmarshal_uint_loop(off, b, i, x, s) ==
    IF i >= MAX_VARINT_LEN THEN Raise(OVERFLOW, b)
    ELSE IF off + i >= Len(b) THEN Raise(BUF_TOO_SMALL, b)
    ELSE LET byte_val == b[off + i + 1] IN
         IF byte_val < 128
         THEN IF i = MAX_VARINT_LEN - 1 /\ byte_val > 1 THEN Raise(OVERFLOW, b)
              ELSE ReturnV(off + i + 1, b,
                           UIntV(BitOr(x, Shl(NatToBits(byte_val), s))))
         ELSE unmarshal_uint_loop(off, b, i + 1,
                                  BitOr(x, Shl(NatToBits(byte_val % 128), s)), s + 7)

unmarshal_uint(off, b) == unmarshal_uint_loop(off, b, 0, <<>>, 0)

\* reports a varint that runs off the buffer as an overflow
RECURSIVE skip_varint_loop_eager_overflow(_, _, _)
skip_varint_loop_eager_overflow(off, b, i) ==
    IF i >= MAX_VARINT_LEN \/ off + i >= Len(b) THEN Raise(OVERFLOW, b)
    ELSE IF b[off + i + 1] < 128
         THEN IF i = MAX_VARINT_LEN - 1 /\ b[off + i + 1] > 1 THEN Raise(OVERFLOW, b)
              ELSE Return(off + i + 1, b)
         ELSE skip_varint_loop_eager_overflow(off, b, i + 1)

RECURSIVE skip_varint_loop(_, _, _)
skip_varint_loop(off, b, i) ==
    IF i >= MAX_VARINT_LEN THEN Raise(OVERFLOW, b)
    ELSE IF off + i >= Len(b) THEN Raise(BUF_TOO_SMALL, b)
    ELSE IF b[off + i + 1] < 128
         THEN IF i = MAX_VARINT_LEN - 1 /\ b[off + i + 1] > 1 THEN Raise(OVERFLOW, b)
              ELSE Return(off + i + 1, b)
         ELSE skip_varint_loop(off, b, i + 1)

skip_varint(off, b) == skip_varint_loop(off, b, 0)

-----------------------------------------------------------------------------
(* ZigZag and the signed varint: std/python/bstd.py                        *)

\* value is an int value; the result is a magnitude
encode_zigzag(value) ==
    IF value.neg THEN BitsDec(Shl(value.mag, 1)) ELSE Shl(value.mag, 1)

\* the negative branch without its "- 1"
decode_zigzag_no_dec(value) ==
    IF Bit(value, 1) = 1 THEN IntV(TRUE, Shr(value, 1))
    ELSE IntV(FALSE, Shr(value, 1))

\* value is a magnitude; the result is an int value
decode_zigzag(value) ==
    IF Bit(value, 1) = 1 THEN IntV(TRUE, BitsInc(Shr(value, 1)))
    ELSE IntV(FALSE, Shr(value, 1))

size_int(value) == size_uint(encode_zigzag(value))

marshal_int(off, b, value) == marshal_uint(off, b, encode_zigzag(value))

unmarshal_int(off, b) ==
    LET r == unmarshal_uint(off, b) IN
    IF r.err # OK THEN r ELSE ReturnV(r.n, b, decode_zigzag(r.v.mag))

-----------------------------------------------------------------------------
(* Buffers                                                                 *)

Min(a, b) == IF a < b THEN a ELSE b
Max(a, b) == IF a > b THEN a ELSE b

\* b[i:j] for 0 <= i
Slice(b, i, j) == SubSeq(b, Min(i, Len(b)) + 1, Min(j, Len(b)))

\* b[i:j] = data on a bytearray, for 0 <= i: the slice is clamped to the buffer
\* and replaced by data, whatever data's length
SliceAssign(b, i, j, data) ==
    LET lo == Min(i, Len(b))
        hi == Max(lo, Min(j, Len(b)))
    IN  SubSeq(b, 1, lo) \o data \o SubSeq(b, hi + 1, Len(b))

-----------------------------------------------------------------------------
(* Fixed-width integers: int.to_bytes / int.from_bytes, little-endian      *)

OverflowError == "OverflowError"

\* the 8w bits of value's two's-complement representation
TwosBits(value, w) ==
    IF value.neg
    THEN LET d == BitsDec(value.mag) IN [i \in 1..(8 * w) |-> 1 - Bit(d, i)]
    ELSE [i \in 1..(8 * w) |-> Bit(value.mag, i)]

InRange(value, w, signed) ==
    IF signed
    THEN IF value.neg THEN Len(BitsDec(value.mag)) <= 8 * w - 1
         ELSE Len(value.mag) <= 8 * w - 1
    ELSE ~value.neg /\ Len(value.mag) <= 8 * w

\* value.to_bytes(w, 'big', signed=signed)
to_bytes_big_endian(value, w, signed) ==
    LET bits == TwosBits(value, w)
    IN  [k \in 1..w |-> BitsToNat(SubSeq(bits, 8 * (w - k) + 1, 8 * (w - k + 1)))]

\* value.to_bytes(w, 'little', signed=signed), for a value in range
to_bytes(value, w, signed) ==
    LET bits == TwosBits(value, w)
    IN  [k \in 1..w |-> BitsToNat(SubSeq(bits, 8 * (k - 1) + 1, 8 * k))]

\* int.from_bytes(bs, 'little', signed=signed)
from_bytes(bs, signed) ==
    LET w == Len(bs)
        bits == [i \in 1..(8 * w) |-> (bs[((i - 1) \div 8) + 1] \div (2 ^ ((i - 1) % 8))) % 2]
    IN  IF signed /\ w > 0 /\ bits[8 * w] = 1
        THEN IntV(TRUE, BitsInc(Norm([i \in 1..(8 * w) |-> 1 - bits[i]])))
        ELSE IntV(FALSE, Norm(bits))

\* checks that the cursor is in the buffer, not that w bytes are
skip_fixed_cursor_only(off, b, w) ==
    IF Len(b) < off THEN Raise(BUF_TOO_SMALL, b) ELSE Return(off + w, b)

skip_fixed(off, b, w) ==
    IF Len(b) < off + w THEN Raise(BUF_TOO_SMALL, b) ELSE Return(off + w, b)

marshal_fixed(off, b, v, w, signed) ==
    IF Len(b) < off + w THEN Raise(BUF_TOO_SMALL, b)
    ELSE IF ~InRange(v, w, signed) THEN Raise(OverflowError, b)
    ELSE Return(off + w, SliceAssign(b, off, off + w, to_bytes(v, w, signed)))

unmarshal_fixed(off, b, w, signed) ==
    IF Len(b) < off + w THEN Raise(BUF_TOO_SMALL, b)
    ELSE ReturnV(off + w, b, from_bytes(Slice(b, off, off + w), signed))

-----------------------------------------------------------------------------
(* byte and bool                                                           *)

skip_byte(off, b) ==
    IF Len(b) - off < 1 THEN Raise(BUF_TOO_SMALL, b) ELSE Return(off + 1, b)

\* value & 0xFF
LowByte(value) ==
    IF value.neg THEN (256 - LowBits(value.mag, 8)) % 256 ELSE LowBits(value.mag, 8)

marshal_byte(off, b, value) ==
    IF Len(b) - off < 1 THEN Raise(BUF_TOO_SMALL, b)
    ELSE Return(off + 1, [b EXCEPT ![off + 1] = LowByte(value)])

unmarshal_byte(off, b) ==
    IF Len(b) - off < 1 THEN Raise(BUF_TOO_SMALL, b)
    ELSE ReturnV(off + 1, b, NatV(b[off + 1]))

skip_bool(off, b) ==
    IF Len(b) - off < 1 THEN Raise(BUF_TOO_SMALL, b) ELSE Return(off + 1, b)

\* Python truth of a value
Truthy(v) ==
    CASE v.tag = "none" -> FALSE
      [] v.tag \in {"bool", "int"} -> v.mag # <<>>
      [] v.tag \in {"str", "bytes"} -> v.s # <<>>
      [] OTHER -> v.items # <<>>

marshal_bool(off, b, v) ==
    IF Len(b) - off < 1 THEN Raise(BUF_TOO_SMALL, b)
    ELSE Return(off + 1, [b EXCEPT ![off + 1] = IF Truthy(v) THEN 1 ELSE 0])

\* returns b[n] != 0
unmarshal_bool_nonzero(off, b) ==
    IF Len(b) - off < 1 THEN Raise(BUF_TOO_SMALL, b)
    ELSE ReturnV(off + 1, b, BoolV(b[off + 1] # 0))

unmarshal_bool(off, b) ==
    IF Len(b) - off < 1 THEN Raise(BUF_TOO_SMALL, b)
    ELSE ReturnV(off + 1, b, BoolV(b[off + 1] = 1))

-----------------------------------------------------------------------------
(* float32 and float64: struct.pack / struct.unpack with '<f' and '<d'.    *)
(* A Python float is kept as its IEEE-754 binary64 pattern, the 8 bytes    *)
(* struct.pack('<d', v) gives.                                             *)

FloatV(bytes8) == Val("float", FALSE, <<>>, bytes8, <<>>)

BytesToBits(bs) ==
    [i \in 1..(8 * Len(bs)) |-> (bs[((i - 1) \div 8) + 1] \div (2 ^ ((i - 1) % 8))) % 2]

\* struct.pack('<f', v): v rounded to binary32, ties to even; [err, bytes]
pack_f(v) ==
    LET bits == BytesToBits(v.s)
        sign == bits[64]
        e == BitsToNat(SubSeq(bits, 53, 63))
        m == SubSeq(bits, 1, 52)
        S == m \o <<1>>
        E == e - 1023
        sh == IF E >= -126 THEN 29 ELSE -E - 97
        kept == IF sh >= 54 THEN 0 ELSE BitsToNat(SubSeq(S, sh + 1, 53))
        guard == sh <= 53 /\ S[sh] = 1
        sticky == \E i \in 1..Min(sh - 1, 53) : S[i] = 1
        up == guard /\ (sticky \/ kept % 2 = 1)
        mag == CASE e = 2047 /\ m = Zeros(52) -> 255 * (2 ^ 23)
                 [] e = 2047 -> 255 * (2 ^ 23) + 2 ^ 22 + BitsToNat(SubSeq(m, 30, 51))
                 [] e = 0 -> 0
                 [] E > 127 -> 255 * (2 ^ 23)
                 [] OTHER -> (IF E >= -126 THEN (E + 126) * (2 ^ 23) ELSE 0)
                             + kept + (IF up THEN 1 ELSE 0)
    IN  IF e # 2047 /\ mag >= 255 * (2 ^ 23)
        THEN [err |-> OverflowError, bytes |-> <<>>]
        ELSE [err |-> OK,
              bytes |-> <<mag % 256, (mag \div 256) % 256, (mag \div 65536) % 256,
                          (mag \div (2 ^ 24)) + 128 * sign>>]

\* struct.unpack('<f', bs)[0]: the binary32 value widened to a Python float
unpack_f(bs) ==
    LET bits == BytesToBits(bs)
        sign == bits[32]
        e8 == BitsToNat(SubSeq(bits, 24, 31))
        m23 == SubSeq(bits, 1, 23)
        h == Len(Norm(m23))
        mant == CASE e8 = 255 /\ h > 0 -> Zeros(29) \o SubSeq(m23, 1, 22) \o <<1>>
                  [] e8 = 0 /\ h > 0 -> Zeros(53 - h) \o SubSeq(m23, 1, h - 1)
                  [] OTHER -> Zeros(29) \o m23
        exp == CASE e8 = 255 -> 2047
                 [] e8 = 0 /\ h = 0 -> 0
                 [] e8 = 0 -> h + 873
                 [] OTHER -> e8 + 896
        all == mant \o [i \in 1..11 |-> (exp \div (2 ^ (i - 1))) % 2] \o <<sign>>
    IN  FloatV([k \in 1..8 |-> BitsToNat(SubSeq(all, 8 * (k - 1) + 1, 8 * k))])

skip_float32(off, b) ==
    IF Len(b) < off + 4 THEN Raise(BUF_TOO_SMALL, b) ELSE Return(off + 4, b)

marshal_float32(off, b, v) ==
    IF Len(b) < off + 4 THEN Raise(BUF_TOO_SMALL, b)
    ELSE LET p == pack_f(v) IN
         IF p.err # OK THEN Raise(p.err, b)
         ELSE Return(off + 4, SliceAssign(b, off, off + 4, p.bytes))

unmarshal_float32(off, b) ==
    IF Len(b) < off + 4 THEN Raise(BUF_TOO_SMALL, b)
    ELSE ReturnV(off + 4, b, unpack_f(Slice(b, off, off + 4)))

skip_float64(off, b) ==
    IF Len(b) < off + 8 THEN Raise(BUF_TOO_SMALL, b) ELSE Return(off + 8, b)

marshal_float64(off, b, v) ==
    IF Len(b) < off + 8 THEN Raise(BUF_TOO_SMALL, b)
    ELSE Return(off + 8, SliceAssign(b, off, off + 8, v.s))

unmarshal_float64(off, b) ==
    IF Len(b) < off + 8 THEN Raise(BUF_TOO_SMALL, b)
    ELSE ReturnV(off + 8, b, FloatV(Slice(b, off, off + 8)))

-----------------------------------------------------------------------------
(* str.encode('utf-8') and bytes.decode('utf-8'); a str is its sequence of *)
(* code points                                                             *)

EncodeChar(cp) ==
    IF cp < 128 THEN <<cp>>
    ELSE IF cp < 2048 THEN <<192 + (cp \div 64), 128 + (cp % 64)>>
    ELSE IF cp < 65536
         THEN <<224 + (cp \div 4096), 128 + ((cp \div 64) % 64), 128 + (cp % 64)>>
    ELSE <<240 + (cp \div 262144), 128 + ((cp \div 4096) % 64),
           128 + ((cp \div 64) % 64), 128 + (cp % 64)>>

\* the encodings of the code points, one after the other; the string is
\* encoded half by half so that a long one does not nest deeply
RECURSIVE Utf8Encode(_)
Utf8Encode(cps) ==
    IF cps = <<>> THEN <<>>
    ELSE IF Len(cps) = 1 THEN EncodeChar(cps[1])
    ELSE LET h == Len(cps) \div 2
         IN  Utf8Encode(SubSeq(cps, 1, h)) \o Utf8Encode(SubSeq(cps, h + 1, Len(cps)))

IsCont(x) == x >= 128 /\ x <= 191

\* the number of bytes of the well-formed UTF-8 sequence at the head of bs, 0 if none
CharLen(bs) ==
    LET b0 == bs[1]
        b1 == IF Len(bs) >= 2 THEN bs[2] ELSE 0
        b2 == IF Len(bs) >= 3 THEN bs[3] ELSE 0
        b3 == IF Len(bs) >= 4 THEN bs[4] ELSE 0
    IN  IF b0 < 128 THEN 1
        ELSE IF b0 >= 194 /\ b0 <= 223 THEN (IF IsCont(b1) THEN 2 ELSE 0)
        ELSE IF b0 >= 224 /\ b0 <= 239
             THEN IF /\ IsCont(b1) /\ IsCont(b2)
                     /\ (b0 = 224 => b1 >= 160)
                     /\ (b0 = 237 => b1 <= 159)
                  THEN 3 ELSE 0
        ELSE IF b0 >= 240 /\ b0 <= 244
             THEN IF /\ IsCont(b1) /\ IsCont(b2) /\ IsCont(b3)
                     /\ (b0 = 240 => b1 >= 144)
                     /\ (b0 = 244 => b1 <= 143)
                  THEN 4 ELSE 0
        ELSE 0

DecodeChar(bs, k) ==
    CASE k = 1 -> bs[1]
      [] k = 2 -> (bs[1] - 192) * 64 + (bs[2] - 128)
      [] k = 3 -> (bs[1] - 224) * 4096 + (bs[2] - 128) * 64 + (bs[3] - 128)
      [] OTHER -> (bs[1] - 240) * 262144 + (bs[2] - 128) * 4096
                  + (bs[3] - 128) * 64 + (bs[4] - 128)

\* the first position after the middle of bs that holds no continuation
\* byte (a character starts there, if bs is well formed), 0 if the four
\* bytes after the middle are all continuation bytes
SplitAt(bs) ==
    LET h == Len(bs) \div 2
        starts == {p \in (h + 1)..(h + 4) : ~IsCont(bs[p])}
    IN  IF starts = {} THEN 0 ELSE CHOOSE p \in starts : \A q \in starts : p <= q

\* [err, cps]: strict decoding, character by character; a long input is
\* decoded in two parts that meet where a character starts
RECURSIVE Utf8Decode(_, _)
Utf8Decode(bs, acc) ==
    IF bs = <<>> THEN [err |-> OK, cps |-> acc]
    ELSE IF Len(bs) < 8
    THEN LET k == CharLen(bs) IN
         IF k = 0 THEN [err |-> UnicodeDecodeError, cps |-> <<>>]
         ELSE Utf8Decode(SubSeq(bs, k + 1, Len(bs)), Append(acc, DecodeChar(bs, k)))
    ELSE LET p == SplitAt(bs) IN
         IF p = 0 THEN [err |-> UnicodeDecodeError, cps |-> <<>>]
         ELSE LET l == Utf8Decode(SubSeq(bs, 1, p - 1), <<>>)
                  r == Utf8Decode(SubSeq(bs, p, Len(bs)), <<>>)
              IN  IF l.err # OK THEN l
                  ELSE IF r.err # OK THEN r
                  ELSE [err |-> OK, cps |-> acc \o l.cps \o r.cps]

-----------------------------------------------------------------------------
(* Strings and bytes: std/python/bstd.py                                   *)

size_string(v) ==
    LET str_len == Len(Utf8Encode(v.s)) IN str_len + size_uint(NatToBits(str_len))

\* writes a 0 byte after the payload where there is room for one
marshal_string_nul_terminated(off, b, v) ==
    LET encoded_s == Utf8Encode(v.s)
        str_len == Len(encoded_s)
        r == marshal_uint(off, b, NatToBits(str_len))
    IN  IF r.err # OK THEN r
        ELSE IF Len(r.b) - r.n < str_len THEN Raise(BUF_TOO_SMALL, r.b)
        ELSE IF Len(r.b) - r.n = str_len
             THEN Return(r.n + str_len, SliceAssign(r.b, r.n, r.n + str_len, encoded_s))
        ELSE Return(r.n + str_len,
                    SliceAssign(r.b, r.n, r.n + str_len + 1, encoded_s \o <<0>>))

marshal_string(off, b, v) ==
    LET encoded_s == Utf8Encode(v.s)
        str_len == Len(encoded_s)
        r == marshal_uint(off, b, NatToBits(str_len))
    IN  IF r.err # OK THEN r
        ELSE IF Len(r.b) - r.n < str_len THEN Raise(BUF_TOO_SMALL, r.b)
        ELSE Return(r.n + str_len, SliceAssign(r.b, r.n, r.n + str_len, encoded_s))

\* b[n:n+str_len].decode('latin-1'): every byte taken as one code point
unmarshal_string_latin1(off, b) ==
    LET r == unmarshal_uint(off, b) IN
    IF r.err # OK THEN r
    ELSE IF ~LeNat(r.v.mag, Len(b) - r.n) THEN Raise(BUF_TOO_SMALL, b)
    ELSE LET str_len == BitsToNat(r.v.mag)
         IN  ReturnV(r.n + str_len, b, StrV(Slice(b, r.n, r.n + str_len)))

\* decodes b[n:], every byte up to the end of the buffer
unmarshal_string_to_end(off, b) ==
    LET r == unmarshal_uint(off, b) IN
    IF r.err # OK THEN r
    ELSE IF ~LeNat(r.v.mag, Len(b) - r.n) THEN Raise(BUF_TOO_SMALL, b)
    ELSE LET str_len == BitsToNat(r.v.mag)
             d == Utf8Decode(Slice(b, r.n, Len(b)), <<>>)
         IN  IF d.err # OK THEN Raise(d.err, b)
             ELSE ReturnV(r.n + str_len, b, StrV(d.cps))

unmarshal_string(off, b) ==
    LET r == unmarshal_uint(off, b) IN
    IF r.err # OK THEN r
    ELSE IF ~LeNat(r.v.mag, Len(b) - r.n) THEN Raise(BUF_TOO_SMALL, b)
    ELSE LET str_len == BitsToNat(r.v.mag)
             d == Utf8Decode(Slice(b, r.n, r.n + str_len), <<>>)
         IN  IF d.err # OK THEN Raise(d.err, b)
             ELSE ReturnV(r.n + str_len, b, StrV(d.cps))

\* skips the payload only if it decodes
skip_string_decoding(off, b) ==
    LET r == unmarshal_string(off, b) IN
    IF r.err # OK THEN r ELSE Return(r.n, b)

skip_string(off, b) ==
    LET r == unmarshal_uint(off, b) IN
    IF r.err # OK THEN r
    ELSE IF ~LeNat(r.v.mag, Len(b) - r.n) THEN Raise(BUF_TOO_SMALL, b)
    ELSE Return(r.n + BitsToNat(r.v.mag), b)

size_bytes(v) == Len(v.s) + size_uint(NatToBits(Len(v.s)))

marshal_bytes(off, b, v) ==
    LET r == marshal_uint(off, b, NatToBits(Len(v.s))) IN
    IF r.err # OK THEN r
    ELSE IF Len(r.b) - r.n < Len(v.s) THEN Raise(BUF_TOO_SMALL, r.b)
    ELSE Return(r.n + Len(v.s), SliceAssign(r.b, r.n, r.n + Len(v.s), v.s))

unmarshal_bytes(off, b) ==
    LET r == unmarshal_uint(off, b) IN
    IF r.err # OK THEN r
    ELSE IF ~LeNat(r.v.mag, Len(b) - r.n) THEN Raise(BUF_TOO_SMALL, b)
    ELSE LET size == BitsToNat(r.v.mag)
         IN  ReturnV(r.n + size, b, BytesV(Slice(b, r.n, r.n + size)))

\* trusts the declared length
skip_bytes_unchecked(off, b) ==
    LET r == unmarshal_uint(off, b) IN
    IF r.err # OK THEN r
    ELSE IF ~LeNat(r.v.mag, 255) THEN Raise(BUF_TOO_SMALL, b)
    ELSE Return(r.n + BitsToNat(r.v.mag), b)

skip_bytes(off, b) ==
    LET r == unmarshal_uint(off, b) IN
    IF r.err # OK THEN r
    ELSE IF ~LeNat(r.v.mag, Len(b) - r.n) THEN Raise(BUF_TOO_SMALL, b)
    ELSE Return(r.n + BitsToNat(r.v.mag), b)

-----------------------------------------------------------------------------
(* Codecs.  The caller picks the size / marshal / unmarshal / skip         *)
(* functions of a value; a codec descriptor names the family, and sub      *)
(* holds the element codecs passed to a container operation as callbacks.  *)

Ty(k) == [k |-> k, sub |-> <<>>]
SliceOf(e) == [k |-> "slice", sub |-> <<e>>]
MapOf(kt, vt) == [k |-> "map", sub |-> <<kt, vt>>]
OptionalOf(e) == [k |-> "optional", sub |-> <<e>>]

Width(k) ==
    CASE k \in {"int8"} -> 1
      [] k \in {"int16", "uint16"} -> 2
      [] k \in {"int32", "uint32"} -> 4
      [] OTHER -> 8

Signed(k) == k \in {"int8", "int16", "int32", "int64"}
FixedKinds == {"int8", "int16", "int32", "int64", "uint16", "uint32", "uint64"}

TERMINATOR == <<1, 1, 1, 1>>

RECURSIVE Size(_, _), Marshal(_, _, _, _), Unmarshal(_, _, _), Skip(_, _, _)
RECURSIVE skip_map_loop_keys_only(_, _, _, _, _, _)
RECURSIVE skip_slice_scan(_, _, _)
RECURSIVE unmarshal_slice_loop_newest_first(_, _, _, _, _, _)
RECURSIVE size_slice_loop(_, _, _), marshal_slice_loop(_, _, _, _, _)
RECURSIVE unmarshal_slice_loop(_, _, _, _, _, _), skip_slice_loop(_, _, _, _, _)
RECURSIVE size_map_loop(_, _, _, _), marshal_map_loop(_, _, _, _, _, _)
RECURSIVE unmarshal_map_loop(_, _, _, _, _, _, _), skip_map_loop(_, _, _, _, _, _)

(* Slices *)

size_slice_loop(items, sizer, total) ==
    IF items = <<>> THEN total
    ELSE size_slice_loop(Tail(items), sizer, total + Size(sizer, Head(items)))

size_slice(slice_data, sizer) ==
    size_slice_loop(slice_data.items, sizer,
                    4 + size_uint(NatToBits(Len(slice_data.items))))

size_fixed_slice(slice_data, elem_size) ==
    LET count == Len(slice_data.items)
    IN  4 + size_uint(NatToBits(count)) + count * elem_size

marshal_slice_loop(items, marshaler, off, b, c) ==
    IF items = <<>> THEN Ret(OK, off, b, NoneV, c)
    ELSE LET r == Marshal(marshaler, off, b, Head(items)) IN
         IF r.err # OK THEN Ret(r.err, 0, r.b, NoneV, c + 1)
         ELSE marshal_slice_loop(Tail(items), marshaler, r.n, r.b, c + 1)

\* writes the terminator without checking that it fits
marshal_slice_unchecked_terminator(off, b, slice_data, marshaler) ==
    LET r0 == marshal_uint(off, b, NatToBits(Len(slice_data.items))) IN
    IF r0.err # OK THEN r0
    ELSE LET r == marshal_slice_loop(slice_data.items, marshaler, r0.n, r0.b, 0) IN
         IF r.err # OK THEN r
         ELSE Ret(OK, r.n + 4, SliceAssign(r.b, r.n, r.n + 4, TERMINATOR), NoneV, r.calls)

marshal_slice(off, b, slice_data, marshaler) ==
    LET r0 == marshal_uint(off, b, NatToBits(Len(slice_data.items))) IN
    IF r0.err # OK THEN r0
    ELSE LET r == marshal_slice_loop(slice_data.items, marshaler, r0.n, r0.b, 0) IN
         IF r.err # OK THEN r
         ELSE IF Len(r.b) - r.n < 4 THEN Ret(BUF_TOO_SMALL, 0, r.b, NoneV, r.calls)
         ELSE Ret(OK, r.n + 4, SliceAssign(r.b, r.n, r.n + 4, TERMINATOR), NoneV, r.calls)

\* result.insert(0, item) for result.append(item)
unmarshal_slice_loop_newest_first(size, i, unmarshaler, off, b, result) ==
    IF NatToBits(i) = size THEN Ret(OK, off, b, ListV(result), i)
    ELSE LET r == Unmarshal(unmarshaler, off, b) IN
         IF r.err # OK THEN Ret(r.err, 0, b, NoneV, i + 1)
         ELSE unmarshal_slice_loop_newest_first(size, i + 1, unmarshaler, r.n, b,
                                                <<r.v>> \o result)

\* for _ in range(size): i counts the iterations done
unmarshal_slice_loop(size, i, unmarshaler, off, b, result) ==
    IF NatToBits(i) = size THEN Ret(OK, off, b, ListV(result), i)
    ELSE LET r == Unmarshal(unmarshaler, off, b) IN
         IF r.err # OK THEN Ret(r.err, 0, b, NoneV, i + 1)
         ELSE unmarshal_slice_loop(size, i + 1, unmarshaler, r.n, b, Append(result, r.v))

\* requires the four bytes after the last element to be 01 01 01 01
unmarshal_slice_checking_terminator(off, b, unmarshaler) ==
    LET r0 == unmarshal_uint(off, b) IN
    IF r0.err # OK THEN r0
    ELSE LET r == unmarshal_slice_loop(r0.v.mag, 0, unmarshaler, r0.n, b, <<>>) IN
         IF r.err # OK THEN r
         ELSE IF Slice(b, r.n, r.n + 4) # TERMINATOR THEN Ret(BUF_TOO_SMALL, 0, b, NoneV, r.calls)
         ELSE Ret(OK, r.n + 4, b, r.v, r.calls)

unmarshal_slice(off, b, unmarshaler) ==
    LET r0 == unmarshal_uint(off, b) IN
    IF r0.err # OK THEN r0
    ELSE LET r == unmarshal_slice_loop(r0.v.mag, 0, unmarshaler, r0.n, b, <<>>) IN
         IF r.err # OK THEN r
         ELSE IF Len(b) - r.n < 4 THEN Ret(BUF_TOO_SMALL, 0, b, NoneV, r.calls)
         ELSE Ret(OK, r.n + 4, b, r.v, r.calls)

\* calls the skipper of a failed element a second time before giving up
RECURSIVE skip_slice_loop_retrying(_, _, _, _, _)
skip_slice_loop_retrying(element_count, i, element_skipper, off, b) ==
    IF NatToBits(i) = element_count THEN Ret(OK, off, b, NoneV, i)
    ELSE LET r == Skip(element_skipper, off, b) IN
         IF r.err # OK THEN Ret(r.err, 0, b, NoneV, i + 2)
         ELSE skip_slice_loop_retrying(element_count, i + 1, element_skipper, r.n, b)

skip_slice_loop(element_count, i, element_skipper, off, b) ==
    IF NatToBits(i) = element_count THEN Ret(OK, off, b, NoneV, i)
    ELSE LET r == Skip(element_skipper, off, b) IN
         IF r.err # OK THEN Ret(r.err, 0, b, NoneV, i + 1)
         ELSE skip_slice_loop(element_count, i + 1, element_skipper, r.n, b)

\* looks for the first 01 01 01 01 from the cursor on, as the earlier port does
skip_slice_scan(off, b, element_skipper) ==
    IF off >= Len(b) - 3 THEN Raise(BUF_TOO_SMALL, b)
    ELSE IF SubSeq(b, off + 1, off + 4) = TERMINATOR THEN Return(off + 4, b)
    ELSE skip_slice_scan(off + 1, b, element_skipper)

\* takes the terminator for granted
skip_slice_no_terminator_check(off, b, element_skipper) ==
    LET r0 == unmarshal_uint(off, b) IN
    IF r0.err # OK THEN r0
    ELSE LET r == skip_slice_loop(r0.v.mag, 0, element_skipper, r0.n, b) IN
         IF r.err # OK THEN r
         ELSE Ret(OK, r.n + 4, b, NoneV, r.calls)

skip_slice(off, b, element_skipper) ==
    LET r0 == unmarshal_uint(off, b) IN
    IF r0.err # OK THEN r0
    ELSE LET r == skip_slice_loop(r0.v.mag, 0, element_skipper, r0.n, b) IN
         IF r.err # OK THEN r
         ELSE IF Len(b) - r.n < 4 THEN Ret(BUF_TOO_SMALL, 0, b, NoneV, r.calls)
         ELSE Ret(OK, r.n + 4, b, NoneV, r.calls)

(* Maps *)

size_map_loop(pairs, k_sizer, v_sizer, total) ==
    IF pairs = <<>> THEN total
    ELSE size_map_loop(Tail(pairs), k_sizer, v_sizer,
                       total + Size(k_sizer, Head(pairs).items[1])
                             + Size(v_sizer, Head(pairs).items[2]))

size_map(m, k_sizer, v_sizer) ==
    size_map_loop(m.items, k_sizer, v_sizer, 4 + size_uint(NatToBits(Len(m.items))))

marshal_map_loop(pairs, k_marshaler, v_marshaler, off, b, c) ==
    IF pairs = <<>> THEN Ret(OK, off, b, NoneV, c)
    ELSE LET rk == Marshal(k_marshaler, off, b, Head(pairs).items[1]) IN
         IF rk.err # OK THEN Ret(rk.err, 0, rk.b, NoneV, c + 1)
         ELSE LET rv == Marshal(v_marshaler, rk.n, rk.b, Head(pairs).items[2]) IN
              IF rv.err # OK THEN Ret(rv.err, 0, rv.b, NoneV, c + 2)
              ELSE marshal_map_loop(Tail(pairs), k_marshaler, v_marshaler,
                                    rv.n, rv.b, c + 2)

marshal_map(off, b, m, k_marshaler, v_marshaler) ==
    LET r0 == marshal_uint(off, b, NatToBits(Len(m.items))) IN
    IF r0.err # OK THEN r0
    ELSE LET r == marshal_map_loop(m.items, k_marshaler, v_marshaler, r0.n, r0.b, 0) IN
         IF r.err # OK THEN r
         ELSE IF Len(r.b) - r.n < 4 THEN Ret(BUF_TOO_SMALL, 0, r.b, NoneV, r.calls)
         ELSE Ret(OK, r.n + 4, SliceAssign(r.b, r.n, r.n + 4, TERMINATOR), NoneV, r.calls)

\* result.setdefault(key, value): the first occurrence of a key wins
DictSet_first_wins(pairs, key, value) ==
    IF \E i \in 1..Len(pairs) : pairs[i].items[1] = key
    THEN pairs
    ELSE Append(pairs, PairV(key, value))

\* result[key] = value on a dict: an existing key keeps its place
DictSet(pairs, key, value) ==
    IF \E i \in 1..Len(pairs) : pairs[i].items[1] = key
    THEN [i \in 1..Len(pairs) |->
            IF pairs[i].items[1] = key THEN PairV(key, value) ELSE pairs[i]]
    ELSE Append(pairs, PairV(key, value))

unmarshal_map_loop(size, i, k_unmarshaler, v_unmarshaler, off, b, result) ==
    IF NatToBits(i) = size THEN Ret(OK, off, b, DictV(result), 2 * i)
    ELSE LET rk == Unmarshal(k_unmarshaler, off, b) IN
         IF rk.err # OK THEN Ret(rk.err, 0, b, NoneV, 2 * i + 1)
         ELSE LET rv == Unmarshal(v_unmarshaler, rk.n, b) IN
              IF rv.err # OK THEN Ret(rv.err, 0, b, NoneV, 2 * i + 2)
              ELSE unmarshal_map_loop(size, i + 1, k_unmarshaler, v_unmarshaler,
                                      rv.n, b, DictSet(result, rk.v, rv.v))

unmarshal_map(off, b, k_unmarshaler, v_unmarshaler) ==
    LET r0 == unmarshal_uint(off, b) IN
    IF r0.err # OK THEN r0
    ELSE LET r == unmarshal_map_loop(r0.v.mag, 0, k_unmarshaler, v_unmarshaler,
                                     r0.n, b, <<>>) IN
         IF r.err # OK THEN r
         ELSE IF Len(b) - r.n < 4 THEN Ret(BUF_TOO_SMALL, 0, b, NoneV, r.calls)
         ELSE Ret(OK, r.n + 4, b, r.v, r.calls)

\* skips every key and no value
skip_map_loop_keys_only(pair_count, i, key_skipper, value_skipper, off, b) ==
    IF NatToBits(i) = pair_count THEN Ret(OK, off, b, NoneV, i)
    ELSE LET rk == Skip(key_skipper, off, b) IN
         IF rk.err # OK THEN Ret(rk.err, 0, b, NoneV, i + 1)
         ELSE skip_map_loop_keys_only(pair_count, i + 1, key_skipper, value_skipper, rk.n, b)

skip_map_loop(pair_count, i, key_skipper, value_skipper, off, b) ==
    IF NatToBits(i) = pair_count THEN Ret(OK, off, b, NoneV, 2 * i)
    ELSE LET rk == Skip(key_skipper, off, b) IN
         IF rk.err # OK THEN Ret(rk.err, 0, b, NoneV, 2 * i + 1)
         ELSE LET rv == Skip(value_skipper, rk.n, b) IN
              IF rv.err # OK THEN Ret(rv.err, 0, b, NoneV, 2 * i + 2)
              ELSE skip_map_loop(pair_count, i + 1, key_skipper, value_skipper, rv.n, b)

skip_map(off, b, key_skipper, value_skipper) ==
    LET r0 == unmarshal_uint(off, b) IN
    IF r0.err # OK THEN r0
    ELSE LET r == skip_map_loop(r0.v.mag, 0, key_skipper, value_skipper, r0.n, b) IN
         IF r.err # OK THEN r
         ELSE IF Len(b) - r.n < 4 THEN Ret(BUF_TOO_SMALL, 0, b, NoneV, r.calls)
         ELSE Ret(OK, r.n + 4, b, NoneV, r.calls)

(* Time: a datetime is kept as its tzinfo flag and the integer             *)
(* int(t.timestamp() * 1_000_000_000) its conversion gives; a decoded      *)
(* datetime is kept as the nanosecond count it was built from              *)

ValueError == "ValueError"

TimeV(aware, nanos) ==
    Val("datetime", nanos.neg, nanos.mag, <<IF aware THEN 1 ELSE 0>>, <<>>)

skip_time(off, b) == skip_fixed(off, b, 8)

size_time == 8

\* converts a datetime without tzinfo as if it were UTC
marshal_time_assume_utc(off, b, t) ==
    marshal_fixed(off, b, IntV(t.neg, t.mag), 8, TRUE)

marshal_time(off, b, t) ==
    IF t.s = <<0>> THEN Raise(ValueError, b)
    ELSE marshal_fixed(off, b, IntV(t.neg, t.mag), 8, TRUE)

unmarshal_time(off, b) ==
    LET r == unmarshal_fixed(off, b, 8, TRUE) IN
    IF r.err # OK THEN r ELSE ReturnV(r.n, b, TimeV(TRUE, r.v))

-----------------------------------------------------------------------------
(* Optionals *)

\* skips the presence flag and never the element
skip_optional_flag_only(off, b, element_skipper) ==
    LET r == unmarshal_bool(off, b) IN
    IF r.err # OK THEN r ELSE Return(r.n, b)

skip_optional(off, b, element_skipper) ==
    LET r == unmarshal_bool(off, b) IN
    IF r.err # OK THEN r
    ELSE IF Truthy(r.v) THEN Skip(element_skipper, r.n, b)
    ELSE Return(r.n, b)

size_optional(value, sizer) ==
    1 + (IF value.tag # "none" THEN Size(sizer, value) ELSE 0)

\* the flag is bool(value) in place of (value is not None)
marshal_optional_truthy(off, b, value, marshaler) ==
    LET r == marshal_bool(off, b, BoolV(Truthy(value))) IN
    IF r.err # OK THEN r
    ELSE IF Truthy(value) THEN Marshal(marshaler, r.n, r.b, value)
    ELSE r

marshal_optional(off, b, value, marshaler) ==
    LET r == marshal_bool(off, b, BoolV(value.tag # "none")) IN
    IF r.err # OK THEN r
    ELSE IF value.tag # "none" THEN Marshal(marshaler, r.n, r.b, value)
    ELSE r

unmarshal_optional(off, b, unmarshaler) ==
    LET r == unmarshal_bool(off, b) IN
    IF r.err # OK THEN r
    ELSE IF Truthy(r.v) THEN Unmarshal(unmarshaler, r.n, b)
    ELSE ReturnV(r.n, b, NoneV)

(* The function of each family that a codec descriptor names *)

Size(t, v) ==
    CASE t.k \in {"bool", "byte"} -> 1
      [] t.k \in FixedKinds -> Width(t.k)
      [] t.k = "float32" -> 4
      [] t.k = "float64" -> 8
      [] t.k = "uint" -> size_uint(v.mag)
      [] t.k = "int" -> size_int(v)
      [] t.k = "string" -> size_string(v)
      [] t.k = "bytes" -> size_bytes(v)
      [] t.k = "slice" -> size_slice(v, t.sub[1])
      [] t.k = "map" -> size_map(v, t.sub[1], t.sub[2])
      [] t.k = "optional" -> size_optional(v, t.sub[1])
      [] t.k = "time" -> size_time

Marshal(t, off, b, v) ==
    CASE t.k = "bool" -> marshal_bool(off, b, v)
      [] t.k = "byte" -> marshal_byte(off, b, v)
      [] t.k \in FixedKinds -> marshal_fixed(off, b, v, Width(t.k), Signed(t.k))
      [] t.k = "float32" -> marshal_float32(off, b, v)
      [] t.k = "float64" -> marshal_float64(off, b, v)
      [] t.k = "uint" -> marshal_uint(off, b, v.mag)
      [] t.k = "int" -> marshal_int(off, b, v)
      [] t.k = "string" -> marshal_string(off, b, v)
      [] t.k = "bytes" -> marshal_bytes(off, b, v)
      [] t.k = "slice" -> marshal_slice(off, b, v, t.sub[1])
      [] t.k = "map" -> marshal_map(off, b, v, t.sub[1], t.sub[2])
      [] t.k = "optional" -> marshal_optional(off, b, v, t.sub[1])
      [] t.k = "time" -> marshal_time(off, b, v)

Unmarshal(t, off, b) ==
    CASE t.k = "bool" -> unmarshal_bool(off, b)
      [] t.k = "byte" -> unmarshal_byte(off, b)
      [] t.k \in FixedKinds -> unmarshal_fixed(off, b, Width(t.k), Signed(t.k))
      [] t.k = "float32" -> unmarshal_float32(off, b)
      [] t.k = "float64" -> unmarshal_float64(off, b)
      [] t.k = "uint" -> unmarshal_uint(off, b)
      [] t.k = "int" -> unmarshal_int(off, b)
      [] t.k = "string" -> unmarshal_string(off, b)
      [] t.k = "bytes" -> unmarshal_bytes(off, b)
      [] t.k = "slice" -> unmarshal_slice(off, b, t.sub[1])
      [] t.k = "map" -> unmarshal_map(off, b, t.sub[1], t.sub[2])
      [] t.k = "optional" -> unmarshal_optional(off, b, t.sub[1])
      [] t.k = "time" -> unmarshal_time(off, b)

Skip(t, off, b) ==
    CASE t.k = "bool" -> skip_bool(off, b)
      [] t.k \in {"byte", "int8"} -> skip_byte(off, b)
      [] t.k \in FixedKinds \ {"int8"} -> skip_fixed(off, b, Width(t.k))
      [] t.k = "float32" -> skip_float32(off, b)
      [] t.k = "float64" -> skip_float64(off, b)
      [] t.k \in {"uint", "int"} -> skip_varint(off, b)
      [] t.k = "string" -> skip_string(off, b)
      [] t.k = "bytes" -> skip_bytes(off, b)
      [] t.k = "slice" -> skip_slice(off, b, t.sub[1])
      [] t.k = "map" -> skip_map(off, b, t.sub[1], t.sub[2])
      [] t.k = "optional" -> skip_optional(off, b, t.sub[1])
      [] t.k = "time" -> skip_time(off, b)

-----------------------------------------------------------------------------
(* ports/python/std.py: the earlier port.  Its marshal functions write     *)
(* without checking the buffer, and its skip_slice / skip_map take no      *)
(* element skipper.                                                        *)

SetByte(b, i, x) == IF i >= Len(b) THEN Raise(IndexError, b) ELSE Return(i + 1, [b EXCEPT ![i + 1] = x])

RECURSIVE ports_marshal_uint_loop(_, _, _)
ports_marshal_uint_loop(v, i, b) ==
    IF Ge128(v)
    THEN IF i >= Len(b) THEN Raise(IndexError, b)
         ELSE ports_marshal_uint_loop(Shr(v, 7), i + 1,
                                      [b EXCEPT ![i + 1] = LowBits(v, 7) + 128])
    ELSE SetByte(b, i, LowBits(v, 7))

ports_marshal_uint(off, b, value) == ports_marshal_uint_loop(value, off, b)

ports_size_string(v) == Len(v.s) + size_uint(NatToBits(Len(v.s)))

ports_marshal_string(off, b, v) ==
    LET str_len == Len(v.s)
        r == ports_marshal_uint(off, b, NatToBits(str_len))
    IN  IF r.err # OK THEN r
        ELSE Return(r.n + str_len, SliceAssign(r.b, r.n, r.n + str_len, Utf8Encode(v.s)))

ports_marshal_bytes(off, b, v) ==
    LET r == ports_marshal_uint(off, b, NatToBits(Len(v.s))) IN
    IF r.err # OK THEN r
    ELSE Return(r.n + Len(v.s), SliceAssign(r.b, r.n, r.n + Len(v.s), v.s))

ports_marshal_byte(off, b, value) == SetByte(b, off, LowByte(value))

ports_marshal_bool(off, b, value) == SetByte(b, off, IF Truthy(value) THEN 1 ELSE 0)

ports_marshal_int32(off, b, value) ==
    IF Len(b) - off < 4 THEN Raise(BUF_TOO_SMALL, b)
    ELSE IF ~InRange(value, 4, TRUE) THEN Raise(OverflowError, b)
    ELSE Return(off + 4, SliceAssign(b, off, off + 4, to_bytes(value, 4, TRUE)))

\* a - b for a >= b
\* size_int: the size_uint loop written out on v = encode_zigzag(value)
ports_size_int(value) == size_uint_loop(encode_zigzag(value), 0)

\* marshal_int: the marshal_uint loop written out on v = encode_zigzag(value)
ports_marshal_int(off, b, value) == ports_marshal_uint_loop(encode_zigzag(value), off, b)

\* unmarshal_int: the unmarshal_uint loop written out, decode_zigzag at its return
\* returns the varint as read, without decode_zigzag
RECURSIVE ports_unmarshal_int_loop_no_zigzag(_, _, _, _, _)
ports_unmarshal_int_loop_no_zigzag(off, b, i, x, s) ==
    IF i >= MAX_VARINT_LEN THEN Raise(OVERFLOW, b)
    ELSE IF off + i >= Len(b) THEN Raise(BUF_TOO_SMALL, b)
    ELSE LET byte_val == b[off + i + 1] IN
         IF byte_val < 128
         THEN IF i = MAX_VARINT_LEN - 1 /\ byte_val > 1 THEN Raise(OVERFLOW, b)
              ELSE ReturnV(off + i + 1, b,
                           IntV(FALSE, BitOr(x, Shl(NatToBits(byte_val), s))))
         ELSE ports_unmarshal_int_loop_no_zigzag(off, b, i + 1,
                                       BitOr(x, Shl(NatToBits(byte_val % 128), s)), s + 7)

RECURSIVE ports_unmarshal_int_loop(_, _, _, _, _)
ports_unmarshal_int_loop(off, b, i, x, s) ==
    IF i >= MAX_VARINT_LEN THEN Raise(OVERFLOW, b)
    ELSE IF off + i >= Len(b) THEN Raise(BUF_TOO_SMALL, b)
    ELSE LET byte_val == b[off + i + 1] IN
         IF byte_val < 128
         THEN IF i = MAX_VARINT_LEN - 1 /\ byte_val > 1 THEN Raise(OVERFLOW, b)
              ELSE ReturnV(off + i + 1, b,
                           decode_zigzag(BitOr(x, Shl(NatToBits(byte_val), s))))
         ELSE ports_unmarshal_int_loop(off, b, i + 1,
                                       BitOr(x, Shl(NatToBits(byte_val % 128), s)), s + 7)

ports_unmarshal_int(off, b) == ports_unmarshal_int_loop(off, b, 0, <<>>, 0)

RECURSIVE BitsSubFrom(_, _, _)
BitsSubFrom(a, b, borrow) ==
    IF a = <<>> THEN <<>>
    ELSE LET d == a[1] - Bit(b, 1) - borrow
         IN  <<(d + 2) % 2>> \o BitsSubFrom(Tail(a), Shr(b, 1), IF d < 0 THEN 1 ELSE 0)

BitsSub(a, b) == Norm(BitsSubFrom(a, b, 0))

\* (x >> k) & 0xFF for a Python int x, negative or not
ShiftedByte(x, k) ==
    IF x.neg THEN BitsToNat(SubSeq(TwosBits(x, (k \div 8) + 1), k + 1, k + 8))
    ELSE LowBits(Shr(x.mag, k), 8)

ports_marshal_int64(off, b, value) ==
    IF Len(b) - off < 8 THEN Raise(BUF_TOO_SMALL, b)
    ELSE LET unsigned_value ==
                 IF ~value.neg THEN value
                 ELSE IF Len(value.mag) <= 64
                      THEN IntV(FALSE, BitsSub(Shl(<<1>>, 64), value.mag))
                      ELSE IntV(TRUE, BitsSub(value.mag, Shl(<<1>>, 64)))
         IN  Return(off + 8,
                    SliceAssign(b, off, off + 8,
                                [k \in 1..8 |-> ShiftedByte(unsigned_value, 8 * (k - 1))]))

ports_unmarshal_int64(off, b) ==
    IF Len(b) - off < 8 THEN Raise(BUF_TOO_SMALL, b)
    ELSE LET unsigned_value == Norm(BytesToBits(Slice(b, off, off + 8)))
         IN  IF Bit(unsigned_value, 64) = 1
             THEN ReturnV(off + 8, b, IntV(TRUE, BitsSub(Shl(<<1>>, 64), unsigned_value)))
             ELSE ReturnV(off + 8, b, IntV(FALSE, unsigned_value))

RECURSIVE ports_Size(_, _), ports_Marshal(_, _, _, _), ports_Unmarshal(_, _, _), ports_Skip(_, _, _)
RECURSIVE ports_size_slice_loop(_, _, _), ports_marshal_slice_loop(_, _, _, _, _)
RECURSIVE ports_unmarshal_slice_loop(_, _, _, _, _, _)
RECURSIVE ports_size_map_loop(_, _, _, _), ports_marshal_map_loop(_, _, _, _, _, _)
RECURSIVE ports_unmarshal_map_loop(_, _, _, _, _, _, _)

ports_size_slice_loop(items, sizer, total) ==
    IF items = <<>> THEN total
    ELSE ports_size_slice_loop(Tail(items), sizer, total + ports_Size(sizer, Head(items)))

ports_size_slice(slice_data, sizer) ==
    ports_size_slice_loop(slice_data.items, sizer,
                          4 + size_uint(NatToBits(Len(slice_data.items))))

ports_marshal_slice_loop(items, marshaler, off, b, c) ==
    IF items = <<>> THEN Ret(OK, off, b, NoneV, c)
    ELSE LET r == ports_Marshal(marshaler, off, b, Head(items)) IN
         IF r.err # OK THEN Ret(r.err, 0, r.b, NoneV, c + 1)
         ELSE ports_marshal_slice_loop(Tail(items), marshaler, r.n, r.b, c + 1)

ports_marshal_slice(off, b, slice_data, marshaler) ==
    LET r0 == ports_marshal_uint(off, b, NatToBits(Len(slice_data.items))) IN
    IF r0.err # OK THEN r0
    ELSE LET r == ports_marshal_slice_loop(slice_data.items, marshaler, r0.n, r0.b, 0) IN
         IF r.err # OK THEN r
         ELSE Ret(OK, r.n + 4, SliceAssign(r.b, r.n, r.n + 4, TERMINATOR), NoneV, r.calls)

ports_unmarshal_slice_loop(size, i, unmarshaler, off, b, result) ==
    IF NatToBits(i) = size THEN Ret(OK, off, b, ListV(result), i)
    ELSE LET r == ports_Unmarshal(unmarshaler, off, b) IN
         IF r.err # OK THEN Ret(r.err, 0, b, NoneV, i + 1)
         ELSE ports_unmarshal_slice_loop(size, i + 1, unmarshaler, r.n, b,
                                         Append(result, r.v))

ports_unmarshal_slice(off, b, unmarshaler) ==
    LET r0 == unmarshal_uint(off, b) IN
    IF r0.err # OK THEN r0
    ELSE LET r == ports_unmarshal_slice_loop(r0.v.mag, 0, unmarshaler, r0.n, b, <<>>) IN
         IF r.err # OK THEN r
         ELSE IF Len(b) - r.n < 4 THEN Ret(BUF_TOO_SMALL, 0, b, NoneV, r.calls)
         ELSE Ret(OK, r.n + 4, b, r.v, r.calls)

ports_size_map_loop(pairs, k_sizer, v_sizer, total) ==
    IF pairs = <<>> THEN total
    ELSE ports_size_map_loop(Tail(pairs), k_sizer, v_sizer,
                             total + ports_Size(k_sizer, Head(pairs).items[1])
                                   + ports_Size(v_sizer, Head(pairs).items[2]))

ports_size_map(m, k_sizer, v_sizer) ==
    ports_size_map_loop(m.items, k_sizer, v_sizer,
                        4 + size_uint(NatToBits(Len(m.items))))

ports_marshal_map_loop(pairs, k_marshaler, v_marshaler, off, b, c) ==
    IF pairs = <<>> THEN Ret(OK, off, b, NoneV, c)
    ELSE LET rk == ports_Marshal(k_marshaler, off, b, Head(pairs).items[1]) IN
         IF rk.err # OK THEN Ret(rk.err, 0, rk.b, NoneV, c + 1)
         ELSE LET rv == ports_Marshal(v_marshaler, rk.n, rk.b, Head(pairs).items[2]) IN
              IF rv.err # OK THEN Ret(rv.err, 0, rv.b, NoneV, c + 2)
              ELSE ports_marshal_map_loop(Tail(pairs), k_marshaler, v_marshaler,
                                          rv.n, rv.b, c + 2)

ports_marshal_map(off, b, m, k_marshaler, v_marshaler) ==
    LET r0 == ports_marshal_uint(off, b, NatToBits(Len(m.items))) IN
    IF r0.err # OK THEN r0
    ELSE LET r == ports_marshal_map_loop(m.items, k_marshaler, v_marshaler,
                                         r0.n, r0.b, 0) IN
         IF r.err # OK THEN r
         ELSE Ret(OK, r.n + 4, SliceAssign(r.b, r.n, r.n + 4, TERMINATOR), NoneV, r.calls)

ports_unmarshal_map_loop(size, i, k_unmarshaler, v_unmarshaler, off, b, result) ==
    IF NatToBits(i) = size THEN Ret(OK, off, b, DictV(result), 2 * i)
    ELSE LET rk == ports_Unmarshal(k_unmarshaler, off, b) IN
         IF rk.err # OK THEN Ret(rk.err, 0, b, NoneV, 2 * i + 1)
         ELSE LET rv == ports_Unmarshal(v_unmarshaler, rk.n, b) IN
              IF rv.err # OK THEN Ret(rv.err, 0, b, NoneV, 2 * i + 2)
              ELSE ports_unmarshal_map_loop(size, i + 1, k_unmarshaler, v_unmarshaler,
                                            rv.n, b, DictSet(result, rk.v, rv.v))

ports_unmarshal_map(off, b, k_unmarshaler, v_unmarshaler) ==
    LET r0 == unmarshal_uint(off, b) IN
    IF r0.err # OK THEN r0
    ELSE LET r == ports_unmarshal_map_loop(r0.v.mag, 0, k_unmarshaler, v_unmarshaler,
                                           r0.n, b, <<>>) IN
         IF r.err # OK THEN r
         ELSE IF Len(b) - r.n < 4 THEN Ret(BUF_TOO_SMALL, 0, b, NoneV, r.calls)
         ELSE Ret(OK, r.n + 4, b, r.v, r.calls)

\* for i in range(n, lb - 3): the first i at which 01 01 01 01 starts
RECURSIVE ports_skip_slice_scan(_, _)
ports_skip_slice_scan(i, b) ==
    IF i >= Len(b) - 3 THEN Raise(BUF_TOO_SMALL, b)
    ELSE IF b[i + 1] = 1 /\ b[i + 2] = 1 /\ b[i + 3] = 1 /\ b[i + 4] = 1
         THEN Return(i + 4, b)
    ELSE ports_skip_slice_scan(i + 1, b)

ports_skip_slice(off, b) == ports_skip_slice_scan(off, b)

ports_skip_map(off, b) == ports_skip_slice_scan(off, b)

(* The function of each family that a codec descriptor names, in           *)
(* ports/python/std.py.  Its varint decoders, its string and bytes         *)
(* decoders and skippers, and its fixed-width decoders and skippers read   *)
(* as those of bstd.py do.                                                 *)

ports_Size(t, v) ==
    CASE t.k \in {"bool", "byte"} -> 1
      [] t.k = "int32" -> 4
      [] t.k = "int64" -> 8
      [] t.k = "uint" -> size_uint(v.mag)
      [] t.k = "int" -> ports_size_int(v)
      [] t.k = "string" -> ports_size_string(v)
      [] t.k = "bytes" -> size_bytes(v)
      [] t.k = "slice" -> ports_size_slice(v, t.sub[1])
      [] t.k = "map" -> ports_size_map(v, t.sub[1], t.sub[2])

ports_Marshal(t, off, b, v) ==
    CASE t.k = "bool" -> ports_marshal_bool(off, b, v)
      [] t.k = "byte" -> ports_marshal_byte(off, b, v)
      [] t.k = "int32" -> ports_marshal_int32(off, b, v)
      [] t.k = "int64" -> ports_marshal_int64(off, b, v)
      [] t.k = "uint" -> ports_marshal_uint(off, b, v.mag)
      [] t.k = "int" -> ports_marshal_int(off, b, v)
      [] t.k = "string" -> ports_marshal_string(off, b, v)
      [] t.k = "bytes" -> ports_marshal_bytes(off, b, v)
      [] t.k = "slice" -> ports_marshal_slice(off, b, v, t.sub[1])
      [] t.k = "map" -> ports_marshal_map(off, b, v, t.sub[1], t.sub[2])

ports_Unmarshal(t, off, b) ==
    CASE t.k = "bool" -> unmarshal_bool(off, b)
      [] t.k = "byte" -> unmarshal_byte(off, b)
      [] t.k = "int32" -> unmarshal_fixed(off, b, 4, TRUE)
      [] t.k = "int64" -> ports_unmarshal_int64(off, b)
      [] t.k = "uint" -> unmarshal_uint(off, b)
      [] t.k = "int" -> ports_unmarshal_int(off, b)
      [] t.k = "string" -> unmarshal_string(off, b)
      [] t.k = "bytes" -> unmarshal_bytes(off, b)
      [] t.k = "slice" -> ports_unmarshal_slice(off, b, t.sub[1])
      [] t.k = "map" -> ports_unmarshal_map(off, b, t.sub[1], t.sub[2])

ports_Skip(t, off, b) ==
    CASE t.k = "bool" -> skip_bool(off, b)
      [] t.k = "byte" -> skip_byte(off, b)
      [] t.k = "int32" -> skip_fixed(off, b, 4)
      [] t.k = "int64" -> skip_fixed(off, b, 8)
      [] t.k = "uint" -> skip_varint(off, b)
      [] t.k = "int" -> skip_varint(off, b)
      [] t.k = "string" -> skip_string(off, b)
      [] t.k = "bytes" -> skip_bytes(off, b)
      [] t.k = "slice" -> ports_skip_slice(off, b)
      [] t.k = "map" -> ports_skip_map(off, b)

-----------------------------------------------------------------------------
(* The caller: test_data_types of bstd_test.py, and every test built the   *)
(* same way.  Pass 1 sizes every value and allocates one buffer, pass 2    *)
(* marshals the values in order, then a skip pass and an unmarshal pass    *)
(* each walk the buffer from the starting cursor.                          *)

\* the functions of the module the caller imported
SizeOf(t, v) == IF impl = "ports" THEN ports_Size(t, v) ELSE Size(t, v)
MarshalOf(t, off, b, v) ==
    IF impl = "ports" THEN ports_Marshal(t, off, b, v) ELSE Marshal(t, off, b, v)
SkipOf(t, off, b) == IF impl = "ports" THEN ports_Skip(t, off, b) ELSE Skip(t, off, b)
UnmarshalOf(t, off, b) ==
    IF impl = "ports" THEN ports_Unmarshal(t, off, b) ELSE Unmarshal(t, off, b)

RECURSIVE Sum(_)
Sum(q) == IF q = <<>> THEN 0 ELSE Head(q) + Sum(Tail(q))

\* a call the caller made: op on vals[i] at cursor c, returning (or raising) r
Entry(op, i, c, r) == [op |-> op, i |-> i, c |-> c, r |-> r]

\* total_size = sum(s() for s in sizers); b = bytearray(total_size)
Allocate ==
    /\ phase = "size"
    /\ sizes' = [i \in 1..Len(vals) |-> SizeOf(vals[i].t, vals[i].v)]
    /\ buf' = Zeros(base + Sum(sizes') + slack)
    /\ n' = base
    /\ idx' = 1
    /\ phase' = "marshal"
    /\ UNCHANGED <<impl, vals, base, slack, log, cut>>

\* n = marshaler(n, b, values[i])
MarshalNext ==
    /\ phase = "marshal"
    /\ LET r == MarshalOf(vals[idx].t, n, buf, vals[idx].v) IN
       /\ log' = Append(log, Entry("marshal", idx, n, r))
       /\ buf' = r.b
       /\ IF r.err # OK
          THEN /\ phase' = "failed"
               /\ UNCHANGED <<n, idx>>
          ELSE /\ n' = r.n
               /\ idx' = idx + 1
               /\ phase' = IF idx = Len(vals) THEN "marshalled" ELSE "marshal"
    /\ UNCHANGED <<impl, vals, base, slack, sizes, cut>>

\* slice_buf[:-1]: the caller decodes a proper prefix of what it marshalled
Truncate ==
    /\ phase = "marshalled"
    /\ cut = 0
    /\ \E k \in 1..(Len(buf) - base) :
         /\ cut' = k
         /\ buf' = SubSeq(buf, 1, Len(buf) - k)
    /\ UNCHANGED <<impl, vals, base, slack, sizes, n, idx, phase, log>>

\* n = 0 before the skip pass
BeginSkip ==
    /\ phase = "marshalled"
    /\ phase' = "skip"
    /\ n' = base
    /\ idx' = 1
    /\ UNCHANGED <<impl, vals, base, slack, sizes, buf, log, cut>>

\* n = skipper(n, b)
SkipNext ==
    /\ phase = "skip"
    /\ LET r == SkipOf(vals[idx].t, n, buf) IN
       /\ log' = Append(log, Entry("skip", idx, n, r))
       /\ IF r.err # OK
          THEN /\ phase' = "skipped"
               /\ UNCHANGED <<n, idx>>
          ELSE /\ n' = r.n
               /\ idx' = idx + 1
               /\ phase' = IF idx = Len(vals) THEN "skipped" ELSE "skip"
    /\ UNCHANGED <<impl, vals, base, slack, sizes, buf, cut>>

\* n = 0 before the unmarshal pass
BeginUnmarshal ==
    /\ phase = "skipped"
    /\ phase' = "unmarshal"
    /\ n' = base
    /\ idx' = 1
    /\ UNCHANGED <<impl, vals, base, slack, sizes, buf, log, cut>>

\* n, v = unmarshaller(n, b)
UnmarshalNext ==
    /\ phase = "unmarshal"
    /\ LET r == UnmarshalOf(vals[idx].t, n, buf) IN
       /\ log' = Append(log, Entry("unmarshal", idx, n, r))
       /\ IF r.err # OK
          THEN /\ phase' = "done"
               /\ UNCHANGED <<n, idx>>
          ELSE /\ n' = r.n
               /\ idx' = idx + 1
               /\ phase' = IF idx = Len(vals) THEN "done" ELSE "unmarshal"
    /\ UNCHANGED <<impl, vals, base, slack, sizes, buf, cut>>

-----------------------------------------------------------------------------
(* The values the caller marshals                                          *)

TV(t, v) == [t |-> t, v |-> v]

Str_a == StrV(<<97>>)
Str_b == StrV(<<98>>)
Str_c == StrV(<<99>>)
Str_k1 == StrV(<<107, 49>>)
Str_v1 == StrV(<<118, 49>>)
Str_k2 == StrV(<<107, 50>>)
Str_v2 == StrV(<<118, 50>>)
Str_Hello == StrV(<<72, 101, 108, 108, 111>>)
\* a string whose UTF-8 encoding is the terminator pattern 01 01 01 01
Str_1111 == StrV(<<1, 1, 1, 1>>)
\* code points of 2, 3 and 4 UTF-8 bytes
Str_wide == StrV(<<233, 8364, 128512>>)
Bytes_1111 == BytesV(<<1, 1, 1, 1>>)
Bytes_0_10 == BytesV(<<0, 1, 2, 3, 4, 5, 6, 7, 8, 9, 10>>)

Pow2(k) == Zeros(k) \o <<1>>

TString == Ty("string")
TBytes == Ty("bytes")
TByte == Ty("byte")
TUint == Ty("uint")
TInt == Ty("int")

Values == <<
    TV(Ty("bool"), BoolV(TRUE)),
    TV(TByte, NatV(128)),
    TV(TInt, IntV(FALSE, Ones(63))),
    TV(TInt, IntV(TRUE, NatToBits(12345))),
    TV(Ty("int8"), IntV(TRUE, <<1>>)),
    TV(Ty("int16"), IntV(TRUE, <<1>>)),
    TV(Ty("int32"), IntV(FALSE, Ones(31))),
    TV(Ty("int64"), IntV(FALSE, Ones(63))),
    TV(TUint, UIntV(Ones(64))),
    TV(Ty("uint16"), NatV(160)),
    TV(Ty("uint32"), UIntV(Ones(32))),
    TV(Ty("uint64"), UIntV(Ones(64))),
    TV(TString, Str_Hello),
    TV(TBytes, Bytes_0_10),
    TV(Ty("bool"), BoolV(FALSE)),
    TV(TByte, NatV(0)),
    TV(TByte, NatV(255)),
    TV(TInt, IntV(FALSE, <<>>)),
    TV(TInt, IntV(TRUE, <<1>>)),
    TV(TInt, IntV(TRUE, Pow2(63))),
    TV(TInt, IntV(FALSE, NatToBits(64))),
    TV(Ty("int8"), IntV(TRUE, Pow2(7))),
    TV(Ty("int8"), IntV(FALSE, Ones(7))),
    TV(Ty("int16"), IntV(TRUE, Pow2(15))),
    TV(Ty("int16"), IntV(FALSE, NatToBits(258))),
    TV(Ty("int32"), IntV(TRUE, Pow2(31))),
    TV(Ty("int32"), IntV(TRUE, NatToBits(2))),
    TV(Ty("int64"), IntV(TRUE, Pow2(63))),
    TV(Ty("int64"), IntV(TRUE, <<1>>)),
    TV(TUint, UIntV(<<>>)),
    TV(TUint, NatV(127)),
    TV(TUint, NatV(128)),
    TV(TUint, NatV(300)),
    TV(TUint, UIntV(Pow2(63))),
    TV(Ty("uint16"), UIntV(Ones(16))),
    TV(Ty("uint32"), NatV(65536)),
    TV(Ty("uint64"), UIntV(Pow2(63))),
    TV(TString, StrV(<<>>)),
    TV(TString, Str_1111),
    TV(TString, Str_wide),
    TV(TBytes, BytesV(<<>>)),
    TV(TBytes, Bytes_1111),
    TV(TBytes, BytesV(<<255, 128>>)),
    TV(SliceOf(TString), ListV(<<Str_a, Str_b, Str_c>>)),
    TV(SliceOf(TString), ListV(<<>>)),
    TV(SliceOf(TString), ListV(<<Str_a>>)),
    TV(SliceOf(TString), ListV(<<Str_1111, Str_1111>>)),
    TV(SliceOf(TBytes), ListV(<<Bytes_1111, Bytes_1111, Bytes_1111>>)),
    TV(SliceOf(TByte), ListV(<<NatV(1), NatV(1), NatV(1), NatV(1), NatV(1)>>)),
    TV(SliceOf(TByte), ListV(<<NatV(1)>>)),
    TV(SliceOf(TUint), ListV(<<NatV(300), NatV(0), NatV(1)>>)),
    TV(SliceOf(Ty("int32")), ListV(<<IntV(FALSE, NatToBits(16843009)), IntV(TRUE, <<1>>)>>)),
    TV(SliceOf(SliceOf(TString)), ListV(<<ListV(<<Str_a, Str_wide>>), ListV(<<>>)>>)),
    TV(SliceOf(MapOf(TString, TString)),
       ListV(<<DictV(<<PairV(Str_a, Str_b)>>), DictV(<<>>)>>)),
    TV(SliceOf(OptionalOf(TString)), ListV(<<NoneV, Str_Hello, NoneV, StrV(<<>>)>>)),
    TV(MapOf(TString, TString), DictV(<<PairV(Str_k1, Str_v1), PairV(Str_k2, Str_v2)>>)),
    TV(MapOf(TString, TString), DictV(<<>>)),
    TV(MapOf(TString, TString), DictV(<<PairV(Str_a, Str_b)>>)),
    TV(MapOf(TString, TString), DictV(<<PairV(Str_1111, Str_1111)>>)),
    TV(MapOf(Ty("int32"), TString),
       DictV(<<PairV(IntV(FALSE, <<1>>), Str_a), PairV(IntV(FALSE, <<0, 1>>), Str_b)>>)),
    TV(MapOf(TString, SliceOf(TByte)),
       DictV(<<PairV(Str_a, ListV(<<NatV(1), NatV(1), NatV(1), NatV(1)>>))>>)),
    TV(MapOf(TUint, OptionalOf(TBytes)),
       DictV(<<PairV(NatV(200), NoneV), PairV(NatV(1), Bytes_1111)>>)),
    TV(OptionalOf(TString), Str_Hello),
    TV(OptionalOf(TString), NoneV),
    TV(OptionalOf(TString), StrV(<<>>)),
    TV(OptionalOf(TUint), NatV(0)),
    TV(OptionalOf(SliceOf(TString)), ListV(<<Str_a>>)),
    TV(OptionalOf(MapOf(TString, TString)), NoneV)
>>

MaxVals == 3
MaxBase == 1
MaxSlack == 1

\* the values from position start of a list, k of them, wrapping around
Window(list, start, k) ==
    [j \in 1..k |-> list[((start + j - 2) % Len(list)) + 1]]

Fresh ==
    /\ sizes = <<>>
    /\ buf = <<>>
    /\ n = 0
    /\ idx = 0
    /\ log = <<>>
    /\ cut = 0

Init ==
    /\ impl = "bstd"
    /\ \E start \in 1..Len(Values), k \in 1..MaxVals : vals = Window(Values, start, k)
    /\ base \in 0..MaxBase
    /\ slack \in 0..MaxSlack
    /\ phase = "size"
    /\ Fresh

Next ==
    \/ Allocate
    \/ MarshalNext
    \/ BeginSkip
    \/ SkipNext
    \/ BeginUnmarshal
    \/ UnmarshalNext

Spec == Init /\ [][Next]_vars

-----------------------------------------------------------------------------
(* Varints over the whole 64-bit domain: the caller marshals one varint    *)

UintBits == 64
MaxSmall == 300

\* the number of L bits whose top bit and every m-th bit are set
Comb(L, m) == [i \in 1..L |-> IF i = L \/ i % m = 0 THEN 1 ELSE 0]

\* 0..MaxSmall, and for every bit length the numbers 2^(L-1), 2^L - 1 and two
\* mixed bit patterns of that length
UintPool ==
    {NatToBits(k) : k \in 0..MaxSmall}
    \cup {Comb(L, m) : L \in 1..UintBits, m \in {1, 2, 3, UintBits + 1}}

InUint64(x) == Len(x) <= UintBits
InInt64(v) ==
    IF v.neg THEN v.mag # <<>> /\ Len(BitsDec(v.mag)) <= UintBits - 1
    ELSE Len(v.mag) <= UintBits - 1

IntPool ==
    {v \in {IntV(neg, x) : neg \in BOOLEAN, x \in UintPool \cup {Pow2(UintBits - 1)}} :
        InInt64(v)}

VarintInit ==
    /\ impl = "bstd"
    /\ \/ \E x \in UintPool : vals = <<TV(TUint, UIntV(x))>>
       \/ \E v \in IntPool : vals = <<TV(TInt, v)>>
    /\ base \in 0..MaxBase
    /\ slack = 0
    /\ phase = "size"
    /\ Fresh

SpecVarint == VarintInit /\ [][Next]_vars

-----------------------------------------------------------------------------
(* Decoding a buffer the caller did not write: test_varint_overflow,       *)
(* test_detailed_varint_cases, test_skip_varint.  The caller holds the     *)
(* bytes and the codec it expects, runs the skipper and then the           *)
(* unmarshaller at the same cursor.                                        *)

MaxRun == 11
MaxTail == 2
MaxCursor == 2

\* k bytes with the continuation bit set, x and y by turns
Run(x, y, k) == [i \in 1..k |-> IF i % 2 = 1 THEN x ELSE y]

Tails == UNION {[1..k -> {0, 1, 2, 127}] : k \in 0..MaxTail}

VarintBuffers ==
    {Run(x, y, k) \o tl : x \in {128, 255}, y \in {128, 129}, k \in 0..MaxRun, tl \in Tails}

RawInit ==
    /\ impl = "bstd"
    /\ \E t \in {TUint, TInt} : vals = <<TV(t, NoneV)>>
    /\ buf \in VarintBuffers
    /\ base \in 0..MaxCursor
    /\ slack = 0
    /\ sizes = <<>>
    /\ n = base
    /\ idx = 0
    /\ log = <<>>
    /\ cut = 0
    /\ phase = "marshalled"

DecodeNext ==
    \/ BeginSkip
    \/ SkipNext
    \/ BeginUnmarshal
    \/ UnmarshalNext

SpecRaw == RawInit /\ [][DecodeNext]_vars

-----------------------------------------------------------------------------
(* test_terminator_errors: the caller marshals one slice or map of         *)
(* strings and decodes a proper prefix of the encoding                     *)

IsStringContainer(e) == e.t \in {SliceOf(TString), MapOf(TString, TString)}

CutValues ==
    SelectSeq(Values, IsStringContainer)
    \o <<TV(SliceOf(TString), ListV(<<Str_wide, Str_Hello>>)),
         TV(MapOf(TString, TString), DictV(<<PairV(Str_wide, Str_a), PairV(Str_b, Str_wide)>>))>>

CutInit ==
    /\ impl = "bstd"
    /\ \E i \in 1..Len(CutValues) : vals = <<CutValues[i]>>
    /\ base \in 0..MaxBase
    /\ slack = 0
    /\ phase = "size"
    /\ Fresh

NextCut ==
    \/ Next
    \/ Truncate

SpecCut == CutInit /\ [][NextCut]_vars

-----------------------------------------------------------------------------
(* The caller of ports/python/std.py: test_slices, test_maps, test_maps_2  *)
(* of test.py                                                              *)

Str_x01 == StrV(<<1>>)

PortsValues == <<
    TV(SliceOf(TString), ListV(<<Str_Hello, Str_a, Str_b, Str_c, Str_k1>>)),
    TV(MapOf(TString, TString), DictV(<<PairV(Str_k1, Str_v1), PairV(Str_k2, Str_v2)>>)),
    TV(MapOf(Ty("int32"), TString),
       DictV(<<PairV(IntV(FALSE, <<1>>), Str_v1), PairV(IntV(FALSE, <<0, 1>>), Str_v2)>>)),
    TV(SliceOf(TString), ListV(<<>>)),
    TV(MapOf(TString, TString), DictV(<<>>)),
    TV(SliceOf(TString), ListV(<<Str_x01>>)),
    TV(SliceOf(TString), ListV(<<Str_1111, Str_a>>)),
    TV(MapOf(TString, TString), DictV(<<PairV(Str_1111, Str_a)>>)),
    TV(MapOf(Ty("int32"), TString), DictV(<<PairV(IntV(FALSE, NatToBits(16843009)), Str_a)>>)),
    TV(SliceOf(TBytes), ListV(<<Bytes_1111, Bytes_0_10>>)),
    TV(SliceOf(TByte), ListV(<<NatV(1), NatV(1), NatV(1), NatV(1), NatV(7)>>)),
    TV(SliceOf(TUint), ListV(<<NatV(300), NatV(2)>>)),
    TV(SliceOf(SliceOf(TString)), ListV(<<ListV(<<Str_a>>), ListV(<<Str_b>>)>>)),
    TV(TString, Str_Hello),
    TV(TBytes, Bytes_1111),
    TV(TUint, NatV(300)),
    TV(Ty("bool"), BoolV(TRUE)),
    TV(TByte, NatV(128)),
    TV(Ty("int32"), IntV(TRUE, <<1>>))
>>

PortsInit ==
    /\ impl = "ports"
    /\ \E start \in 1..Len(PortsValues), k \in 1..MaxVals :
         vals = Window(PortsValues, start, k)
    /\ base \in 0..MaxBase
    /\ slack \in 0..MaxSlack
    /\ phase = "size"
    /\ Fresh

SpecPorts == PortsInit /\ [][Next]_vars

\* the bytes marshalling v alone into a buffer of its size gives
EncodingOf(t, v) == Marshal(t, 0, Zeros(Size(t, v)), v).b

RECURSIVE Concat(_)
Concat(q) == IF q = <<>> THEN <<>> ELSE Head(q) \o Concat(Tail(q))

-----------------------------------------------------------------------------
(* Decoding a map another encoder wrote: the count, then key and value     *)
(* encodings pair after pair (a key may occur again), then 01 01 01 01.    *)
(* The caller keeps the pairs it expects on the wire as a list.            *)

MaxPairs == 3

WireKeys(kt) ==
    IF kt = TString THEN {Str_a, Str_b} ELSE {IntV(FALSE, <<1>>), IntV(TRUE, <<1>>)}

WireValues == {Str_v1, Str_v2, StrV(<<>>)}

WirePairs(kt) ==
    UNION {[1..c -> {PairV(key, value) : key \in WireKeys(kt), value \in WireValues}] :
             c \in 0..MaxPairs}

WireMap(kt, vt, pairs) ==
    EncodingOf(TUint, NatV(Len(pairs)))
    \o Concat([x \in 1..Len(pairs) |->
                EncodingOf(kt, pairs[x].items[1]) \o EncodingOf(vt, pairs[x].items[2])])
    \o TERMINATOR

WireInit ==
    /\ impl \in {"bstd", "ports"}
    /\ base \in 0..MaxBase
    /\ \E kt \in {TString, Ty("int32")} : \E pairs \in WirePairs(kt) :
         /\ vals = <<TV(MapOf(kt, TString), ListV(pairs))>>
         /\ buf = Zeros(base) \o WireMap(kt, TString, pairs)
    /\ slack = 0
    /\ sizes = <<>>
    /\ n = base
    /\ idx = 0
    /\ log = <<>>
    /\ cut = 0
    /\ phase = "marshalled"

SpecWire == WireInit /\ [][DecodeNext]_vars

-----------------------------------------------------------------------------
(* test_string_edge_cases, test_empty_string, test_long_string: the caller *)
(* marshals one string or byte string, skips it and unmarshals it          *)

LongLen == 65537

Rep(x, k) == [i \in 1..k |-> x]

\* the payload lengths at which the length prefix grows by a byte, and around
PayloadLengths == {0, 1, 127, 128, 16383, 16384, LongLen}

StringValues ==
    {TV(TString, StrV(Rep(72, L))) : L \in PayloadLengths}
    \cup {TV(TBytes, BytesV(Rep(L % 256, L))) : L \in PayloadLengths}
    \cup {TV(TString, Str_wide), TV(TString, StrV(Rep(233, 64))),
          TV(TString, StrV(Rep(8364, 43))), TV(TString, StrV(Rep(128512, 4096)))}

StringsInit ==
    /\ impl = "bstd"
    /\ \E e \in StringValues : vals = <<e>>
    /\ base \in 0..MaxBase
    /\ slack = 0
    /\ phase = "size"
    /\ Fresh

SpecStrings == StringsInit /\ [][Next]_vars

-----------------------------------------------------------------------------
(* test_empty_string and test_long_string of test.py, on strings of        *)
(* ports/python/std.py                                                     *)

PortsStringValues ==
    {e \in StringValues : e.t = TString /\ Len(e.v.s) <= 128}
    \cup {TV(TString, StrV(<<233>>)), TV(TString, Str_Hello)}

PortsStringsInit ==
    /\ impl = "ports"
    /\ \E e \in PortsStringValues : vals = <<e>>
    /\ base \in 0..MaxBase
    /\ slack \in 0..MaxSlack
    /\ phase = "size"
    /\ Fresh

SpecPortsStrings == PortsStringsInit /\ [][Next]_vars

-----------------------------------------------------------------------------
(* test_err_buf_too_small_specific: the caller decodes a buffer that holds *)
(* a length prefix and some bytes after it, as many as declared or not,    *)
(* well-formed UTF-8 or not.  The caller keeps what it put on the wire:    *)
(* the declared length and the bytes after the prefix.                     *)

MaxDeclared == 4
MaxPayload == 3

WireV(declared, payload) == Val("wire", FALSE, declared, payload, <<>>)

DeclaredLengths == {NatToBits(L) : L \in 0..MaxDeclared} \cup {NatToBits(300), Ones(UintBits)}

Payloads == UNION {[1..m -> {65, 195, 255}] : m \in 0..MaxPayload}

PrefixedInit ==
    /\ impl = "bstd"
    /\ base \in 0..MaxBase
    /\ \E t \in {TString, TBytes}, declared \in DeclaredLengths, payload \in Payloads :
         /\ vals = <<TV(t, WireV(declared, payload))>>
         /\ buf = Zeros(base) \o EncodingOf(TUint, UIntV(declared)) \o payload
    /\ slack = 0
    /\ sizes = <<>>
    /\ n = base
    /\ idx = 0
    /\ log = <<>>
    /\ cut = 0
    /\ phase = "marshalled"

SpecPrefixed == PrefixedInit /\ [][DecodeNext]_vars

-----------------------------------------------------------------------------
(* test_err_buf_too_small: the caller hands an operation a buffer that may *)
(* be too short.  It marshals one value at its cursor into a buffer it     *)
(* allocated with slack bytes more (or, slack negative, fewer) than the    *)
(* cursor plus the value's size; or it decodes a fixed-width value from a  *)
(* buffer of that length it received.                                      *)

FloatValues == <<
    TV(Ty("float64"), FloatV(Zeros(8))),
    TV(Ty("float64"), FloatV(<<154, 153, 153, 153, 153, 153, 185, 63>>)),
    TV(Ty("float64"), FloatV(<<0, 0, 0, 0, 0, 0, 240, 255>>)),
    TV(Ty("float32"), FloatV(<<0, 0, 0, 0, 0, 0, 240, 63>>)),
    TV(Ty("float32"), FloatV(<<154, 153, 153, 153, 153, 153, 185, 63>>)),
    TV(Ty("float32"), FloatV(<<0, 0, 0, 0, 0, 0, 160, 54>>))
>>

FixedWidthKinds == FixedKinds \cup {"bool", "byte", "float32", "float64"}

\* the width w of a fixed-width codec: what its size function returns
WidthOf(k) ==
    CASE k \in {"bool", "byte"} -> 1
      [] k = "float32" -> 4
      [] k = "float64" -> 8
      [] OTHER -> Width(k)

RoomValues == {(Values \o FloatValues)[i] : i \in 1..(Len(Values) + Len(FloatValues))}

RoomInit ==
    /\ impl = "bstd"
    /\ base \in 0..MaxBase
    /\ \E e \in RoomValues :
         /\ vals = <<e>>
         /\ sizes = <<Size(e.t, e.v)>>
         /\ slack \in (-(base + sizes[1]))..MaxSlack
         /\ \/ /\ phase = "marshal"
               /\ buf = Zeros(base + sizes[1] + slack)
               /\ idx = 1
            \/ /\ e.t.k \in FixedWidthKinds
               /\ phase = "marshalled"
               /\ \E x \in {0, 1, 255} : buf = Rep(x, base + sizes[1] + slack)
               /\ idx = 0
    /\ n = base
    /\ log = <<>>
    /\ cut = 0

RoomNext ==
    \/ MarshalNext
    \/ DecodeNext

SpecRoom == RoomInit /\ [][RoomNext]_vars

-----------------------------------------------------------------------------
(* Fixed-width integers over their whole range: the caller marshals one    *)
(* integer of 2, 4 or 8 bytes, with bstd.py or, for int64, with the        *)
(* shift-based functions of ports/python/std.py                            *)

FixedPool(w, signed) ==
    {v \in {IntV(neg, x) : neg \in (IF signed THEN BOOLEAN ELSE {FALSE}),
                           x \in {NatToBits(k) : k \in 0..MaxSmall}
                                 \cup {Comb(L, m) : L \in 1..(8 * w), m \in {1, 3}}
                                 \cup {Pow2(8 * w - 1)}} :
        /\ v.neg => v.mag # <<>>
        /\ InRange(v, w, signed)}

FixedInit ==
    /\ \/ /\ impl = "bstd"
          /\ \E k \in FixedKinds \ {"int8"} : \E v \in FixedPool(Width(k), Signed(k)) :
               vals = <<TV(Ty(k), v)>>
       \/ /\ impl = "ports"
          /\ \E v \in FixedPool(8, TRUE) : vals = <<TV(Ty("int64"), v)>>
    /\ base \in 0..MaxBase
    /\ slack = 0
    /\ phase = "size"
    /\ Fresh

SpecFixed == FixedInit /\ [][Next]_vars

-----------------------------------------------------------------------------
(* Booleans: the caller marshals True or False, or decodes a buffer whose  *)
(* byte at the cursor is any of 0..255, with bstd.py or ports/python/std.py*)

BoolInit ==
    /\ impl \in {"bstd", "ports"}
    /\ base \in 0..MaxBase
    /\ slack = 0
    /\ \/ /\ \E t \in BOOLEAN : vals = <<TV(Ty("bool"), BoolV(t))>>
          /\ phase = "size"
          /\ Fresh
       \/ /\ vals = <<TV(Ty("bool"), NoneV)>>
          /\ \E x \in 0..255 : buf = Zeros(base) \o <<x>>
          /\ sizes = <<1>>
          /\ n = base + 1
          /\ idx = 0
          /\ log = <<>>
          /\ cut = 0
          /\ phase = "marshalled"

SpecBool == BoolInit /\ [][Next]_vars

-----------------------------------------------------------------------------
(* ports/python/std.py with too little room: the caller marshals one       *)
(* varint, string, bytes, slice or map at the cursor into a buffer of any  *)
(* length up to the size of the value and a little more                    *)

PortsRoomValues ==
    {PortsValues[i] : i \in {j \in 1..Len(PortsValues) :
        PortsValues[j].t.k \in {"uint", "string", "bytes", "slice", "map"}}}
    \cup {TV(TInt, IntV(TRUE, NatToBits(300))), TV(TInt, IntV(FALSE, <<1>>))}

PortsRoomInit ==
    /\ impl = "ports"
    /\ base \in 0..MaxBase
    /\ \E e \in PortsRoomValues :
         /\ vals = <<e>>
         /\ sizes = <<ports_Size(e.t, e.v)>>
         /\ slack \in (-(base + sizes[1]))..MaxSlack
    /\ buf = Zeros(base + sizes[1] + slack)
    /\ phase = "marshal"
    /\ idx = 1
    /\ n = base
    /\ log = <<>>
    /\ cut = 0

SpecPortsRoom == PortsRoomInit /\ [][MarshalNext]_vars

-----------------------------------------------------------------------------
(* Varints over the whole 64-bit domain with either implementation: the    *)
(* caller marshals one varint with bstd.py or with ports/python/std.py     *)

VarintBothInit ==
    /\ impl \in {"bstd", "ports"}
    /\ \/ \E x \in UintPool : vals = <<TV(TUint, UIntV(x))>>
       \/ \E v \in IntPool : vals = <<TV(TInt, v)>>
    /\ base \in 0..MaxBase
    /\ slack = 0
    /\ phase = "size"
    /\ Fresh

SpecVarintBoth == VarintBothInit /\ [][Next]_vars

-----------------------------------------------------------------------------
(* Time: the caller marshals one datetime, with or without tzinfo, into a  *)
(* buffer of any length filled with 0xFF, or decodes a time from a buffer  *)
(* of any length (test_time, test_additional_error_paths)                  *)

TimeValues ==
    {TimeV(aware, nanos) : aware \in BOOLEAN,
                           nanos \in {IntV(FALSE, <<>>), IntV(FALSE, Pow2(60)),
                                      IntV(TRUE, <<1>>)}}

TimeInit ==
    /\ impl = "bstd"
    /\ base \in 0..MaxBase
    /\ \E tv \in TimeValues :
         /\ vals = <<TV(Ty("time"), tv)>>
         /\ sizes = <<Size(Ty("time"), tv)>>
         /\ slack \in (-(base + sizes[1]))..MaxSlack
         /\ \/ /\ phase = "marshal"
               /\ buf = Rep(255, base + sizes[1] + slack)
               /\ idx = 1
            \/ /\ tv = TimeV(TRUE, IntV(FALSE, <<>>))
               /\ phase = "marshalled"
               /\ \E x \in {0, 1, 255} : buf = Rep(x, base + sizes[1] + slack)
               /\ idx = 0
    /\ n = base
    /\ log = <<>>
    /\ cut = 0

SpecTime == TimeInit /\ [][RoomNext]_vars

-----------------------------------------------------------------------------
(* Decoding any bytes as any codec: the caller holds a short buffer of     *)
(* arbitrary bytes, possibly followed by four more bytes where a           *)
(* terminator would be, and runs the skipper and then the unmarshaller of  *)
(* the codec it expects at a cursor inside the buffer                      *)

MaxAny == 3

AnyBytes == {0, 1, 2, 128}

AnyEnds == {<<>>, <<1, 1, 1, 1>>, <<0, 0, 0, 0>>, <<2, 1>>}

AnyBuffers ==
    {p \o e : p \in UNION {[1..k -> AnyBytes] : k \in 0..MaxAny}, e \in AnyEnds}

AnyTypes == {
    TUint, TInt, TString, TBytes, TByte, Ty("bool"), Ty("int16"), Ty("float32"),
    Ty("time"),
    SliceOf(TString), SliceOf(TByte), SliceOf(SliceOf(TByte)),
    MapOf(TString, TUint), MapOf(TByte, TByte),
    OptionalOf(TString), OptionalOf(SliceOf(TByte))
}

AnyInit ==
    /\ impl = "bstd"
    /\ \E t \in AnyTypes : vals = <<TV(t, NoneV)>>
    /\ buf \in AnyBuffers
    /\ base \in 0..MaxCursor
    /\ base <= Len(buf)
    /\ slack = 0
    /\ sizes = <<>>
    /\ n = base
    /\ idx = 0
    /\ log = <<>>
    /\ cut = 0
    /\ phase = "marshalled"

SpecAny == AnyInit /\ [][DecodeNext]_vars

-----------------------------------------------------------------------------
(* A terminator another encoder wrote: the caller decodes the encoding of  *)
(* one slice or map whose last four bytes hold any pattern                 *)

TermPatterns ==
    {TERMINATOR, <<0, 0, 0, 0>>, <<255, 255, 255, 255>>, <<1, 1, 1, 0>>,
     <<0, 1, 1, 1>>, <<128, 2, 3, 4>>}

TermValues ==
    {Values[i] : i \in {j \in 1..Len(Values) : Values[j].t.k \in {"slice", "map"}}}

TermInit ==
    /\ impl = "bstd"
    /\ base \in 0..MaxBase
    /\ slack \in 0..MaxSlack
    /\ \E e \in TermValues, p \in TermPatterns :
         /\ vals = <<e>>
         /\ sizes = <<Size(e.t, e.v)>>
         /\ buf = Zeros(base)
                  \o SubSeq(EncodingOf(e.t, e.v), 1, sizes[1] - 4) \o p
                  \o Zeros(slack)
    /\ n = base + sizes[1]
    /\ idx = 0
    /\ log = <<>>
    /\ cut = 0
    /\ phase = "marshalled"

SpecTerm == TermInit /\ [][DecodeNext]_vars

-----------------------------------------------------------------------------
(* A buffer in use: the caller marshals one value at the cursor into a     *)
(* buffer whose every byte is 0xAA, then skips and unmarshals it           *)

FrameValues ==
    RoomValues \cup {TV(Ty("time"), TimeV(TRUE, IntV(FALSE, Pow2(60))))}

FrameInit ==
    /\ impl = "bstd"
    /\ base \in 0..MaxBase
    /\ slack \in 0..MaxSlack
    /\ \E e \in FrameValues :
         /\ vals = <<e>>
         /\ sizes = <<Size(e.t, e.v)>>
    /\ buf = Rep(170, base + sizes[1] + slack)
    /\ phase = "marshal"
    /\ idx = 1
    /\ n = base
    /\ log = <<>>
    /\ cut = 0

SpecFrame == FrameInit /\ [][RoomNext]_vars

-----------------------------------------------------------------------------
(* Signed varints with either implementation: the caller marshals one      *)
(* signed integer of the 64-bit range and decodes it, or decodes a signed  *)
(* varint from a buffer it did not write                                   *)

ZigZagInit ==
    /\ impl \in {"bstd", "ports"}
    /\ slack = 0
    /\ \/ /\ \E v \in IntPool : vals = <<TV(TInt, v)>>
          /\ base \in 0..MaxBase
          /\ phase = "size"
          /\ Fresh
       \/ /\ vals = <<TV(TInt, NoneV)>>
          /\ buf \in VarintBuffers
          /\ base \in 0..MaxCursor
          /\ sizes = <<>>
          /\ n = base
          /\ idx = 0
          /\ log = <<>>
          /\ cut = 0
          /\ phase = "marshalled"

SpecZigZag == ZigZagInit /\ [][Next]_vars

-----------------------------------------------------------------------------
(* Properties                                                              *)

Calls(op) == {k \in 1..Len(log) : log[k].op = op}
Marshalled == Calls("marshal")
Decoded == Calls("skip") \cup Calls("unmarshal")

(* C1: marshalling a value at cursor c into a buffer with at least size(v) *)
(* bytes after c succeeds and returns c + size(v), for every codec; and    *)
(* marshalling a sequence of values from cursor 0 into a buffer whose      *)
(* length is the sum of their sizes ends with the cursor at len(buffer).   *)
C1_MarshalReturnsCursorPlusSize ==
    /\ \A k \in Marshalled :
         /\ log[k].r.err = OK
         /\ log[k].r.n = log[k].c + sizes[log[k].i]
    /\ (phase = "marshalled" /\ base = 0 /\ slack = 0) =>
         /\ Len(buf) = Sum(sizes)
         /\ n = Len(buf)

C1_Witness ==
    /\ phase = "marshalled"
    /\ base = 0
    /\ slack = 0
    /\ Len(vals) = 3
    /\ vals[1].t = TString
    /\ vals[2].t = TBytes
    /\ vals[3].t = Ty("bool")
    /\ n = 19

(* C2: for every marshalled value, the matching skip and the matching      *)
(* unmarshal both succeed at the cursor it was marshalled at and return    *)
(* the offset marshal returned, c + size(v); nested containers included.   *)
C2_SkipUnmarshalSameOffset ==
    \A j \in Marshalled, k \in Decoded :
        log[j].i = log[k].i =>
            /\ log[k].r.err = OK
            /\ log[k].c = log[j].c
            /\ log[k].r.n = log[j].r.n
            /\ log[k].r.n = log[k].c + sizes[log[k].i]

C2_Witness ==
    /\ phase = "done"
    /\ Len(log) = 9
    /\ vals[1].t = SliceOf(SliceOf(TString))
    /\ vals[2].t = SliceOf(MapOf(TString, TString))
    /\ vals[3].t = SliceOf(OptionalOf(TString))
    /\ log[6].op = "skip" /\ log[9].op = "unmarshal"
    /\ log[6].r.n = log[9].r.n

(* C3: for every unsigned v in 0..2^64-1, marshal_uint writes size_uint(v)  *)
(* bytes, between 1 and 10; byte i holds bits 7i..7i+6 of v, every byte    *)
(* but the last has bit 7 set and the last has it clear; and               *)
(* unmarshal_uint at the same cursor returns (cursor + size_uint(v), v).   *)
C3_UintLayoutAndRoundTrip ==
    \A k \in 1..Len(log) :
        vals[log[k].i].t = TUint =>
            LET e == log[k]
                v == vals[e.i].v.mag
                size == sizes[e.i]
            IN  /\ size \in 1..10
                /\ e.r.err = OK
                /\ e.r.n = e.c + size
                /\ e.op = "marshal" =>
                     \A j \in 0..(size - 1) :
                         LET byte == e.r.b[e.c + j + 1] IN
                         /\ byte % 128 = BitsToNat([q \in 1..7 |-> Bit(v, 7 * j + q)])
                         /\ (byte >= 128) = (j < size - 1)
                /\ e.op = "unmarshal" => e.r.v = UIntV(v)

C3_Witness ==
    /\ phase = "done"
    /\ vals[1] = TV(TUint, UIntV(Ones(64)))
    /\ base = 1
    /\ sizes = <<10>>
    /\ log[3].r.n = 11

ZigZagRoundTrip(v) ==
    /\ InUint64(encode_zigzag(v))
    /\ decode_zigzag(encode_zigzag(v)) = v

(* C4: encode_zigzag maps -2^63..2^63-1 one-to-one onto 0..2^64-1, with    *)
(* encode(0)=0, encode(-1)=1, encode(1)=2, encode(-2)=3; decode_zigzag     *)
(* inverts it for every v of the range, -2^63 included; and unmarshal_int  *)
(* returns the v that marshal_int wrote.                                   *)
C4_ZigZagBijection ==
    /\ encode_zigzag(IntV(FALSE, <<>>)) = <<>>
    /\ encode_zigzag(IntV(TRUE, <<1>>)) = <<1>>
    /\ encode_zigzag(IntV(FALSE, <<1>>)) = <<0, 1>>
    /\ encode_zigzag(IntV(TRUE, <<0, 1>>)) = <<1, 1>>
    /\ \A i \in 1..Len(vals) :
         /\ vals[i].t = TInt => ZigZagRoundTrip(vals[i].v)
         \* onto: every unsigned u is the image of a signed value of the range
         /\ vals[i].t = TUint =>
              /\ InInt64(decode_zigzag(vals[i].v.mag))
              /\ encode_zigzag(decode_zigzag(vals[i].v.mag)) = vals[i].v.mag
    /\ \A k \in Calls("unmarshal") :
         vals[log[k].i].t = TInt =>
            /\ log[k].r.err = OK
            /\ log[k].r.v = vals[log[k].i].v

C4_Witness ==
    /\ phase = "done"
    /\ vals[1] = TV(TInt, IntV(TRUE, Pow2(63)))
    /\ sizes = <<10>>
    /\ log[3].r.v = IntV(TRUE, Pow2(63))

\* the bytes at c .. c + m - 1 exist and all have bit 7 set
AllContinue(b, c, m) == \A j \in 0..(m - 1) : c + j < Len(b) /\ b[c + j + 1] >= 128

(* C5: unmarshal_uint at cursor c fails with BUF_TOO_SMALL exactly when    *)
(* the buffer ends before a byte with bit 7 clear is found among the (at   *)
(* most 10) bytes from c, and with OVERFLOW exactly when 10 bytes are      *)
(* there and either all 10 have bit 7 set or the 10th is the first with    *)
(* bit 7 clear and is greater than 1.  0x80 alone: BUF_TOO_SMALL; ten      *)
(* 0x80: OVERFLOW; nine 0x80 then 0x02: OVERFLOW.                          *)
C5_UnmarshalUintErrors ==
    /\ unmarshal_uint(0, <<128>>).err = BUF_TOO_SMALL
    /\ unmarshal_uint(0, Run(128, 128, 10)).err = OVERFLOW
    /\ unmarshal_uint(0, Run(128, 128, 9) \o <<2>>).err = OVERFLOW
    /\ \A k \in Calls("unmarshal") :
         vals[log[k].i].t = TUint =>
            LET c == log[k].c
                left == Len(buf) - c
            IN  /\ (log[k].r.err = BUF_TOO_SMALL) =
                     (left < 10 /\ AllContinue(buf, c, left))
                /\ (log[k].r.err = OVERFLOW) =
                     /\ left >= 10
                     /\ \/ AllContinue(buf, c, 10)
                        \/ AllContinue(buf, c, 9) /\ buf[c + 10] \in 2..127
                /\ log[k].r.err \in {OK, BUF_TOO_SMALL, OVERFLOW}

C5_Witness ==
    /\ phase = "done"
    /\ vals[1].t = TUint
    /\ base = 1
    /\ buf = Run(255, 129, 10) \o <<2>>
    /\ log[2].r.err = OVERFLOW

(* C6: on every buffer and cursor skip_varint and unmarshal_uint (and      *)
(* unmarshal_int) end alike: both succeed with the same new offset, or     *)
(* both fail with the same error kind.                                     *)
C6_SkipVarintAgreesWithUnmarshal ==
    \A j \in Calls("skip"), k \in Calls("unmarshal") :
        (log[j].i = log[k].i /\ log[j].c = log[k].c /\ vals[log[j].i].t \in {TUint, TInt}) =>
            /\ log[j].r.err = log[k].r.err
            /\ log[j].r.err \in {OK, BUF_TOO_SMALL, OVERFLOW}
            /\ log[j].r.err = OK => log[j].r.n = log[k].r.n

C6_Witness ==
    /\ phase = "done"
    /\ vals[1].t = TInt
    /\ buf = Run(128, 128, 9) \o <<1, 127>>
    /\ base = 0
    /\ log[1].r.n = 10
    /\ log[2].r.v = IntV(FALSE, Pow2(62))

\* 01 01 01 01 starts in b at a position in lo .. hi - 1
PatternStartsIn(b, lo, hi) ==
    \E q \in lo..(hi - 1) : q + 4 <= Len(b) /\ SubSeq(b, q + 1, q + 4) = TERMINATOR

(* C7: in bstd.py a slice whose encoding holds 01 01 01 01 before its      *)
(* terminator (a slice of byte strings 01 01 01 01, of bytes all 1) is     *)
(* skipped by skip_slice to exactly the offset marshal_slice returned:     *)
(* the skip makes one element-skipper call per counted element and does    *)
(* not stop at the earlier occurrence of the pattern.                      *)
C7_SkipSliceIgnoresPayloadPattern ==
    \A j \in Marshalled, k \in Calls("skip") :
        (/\ log[j].i = log[k].i
         /\ vals[log[j].i].t.k = "slice"
         /\ PatternStartsIn(log[j].r.b, log[j].c, log[j].r.n - 4)) =>
            /\ log[k].r.err = OK
            /\ log[k].r.n = log[j].r.n
            /\ log[k].r.calls = Len(vals[log[k].i].v.items)

C7_Witness ==
    /\ phase = "done"
    /\ vals[1] = TV(SliceOf(TBytes), ListV(<<Bytes_1111, Bytes_1111, Bytes_1111>>))
    /\ base = 0
    /\ PatternStartsIn(log[1].r.b, 0, 3)
    /\ log[1 + Len(vals)].op = "skip"
    /\ log[1 + Len(vals)].r.n = 20

(* C10: marshal_slice writes the count as a varint, the elements in list   *)
(* order, then 01 01 01 01; unmarshal_slice over it calls the element      *)
(* unmarshaler exactly count times and returns the original list in its    *)
(* order, at offset size_slice = 4 + size_uint(count) + the element sizes. *)
C10_SliceLayoutAndRoundTrip ==
    \A k \in 1..Len(log) :
        vals[log[k].i].t.k = "slice" =>
            LET e == log[k]
                et == vals[e.i].t.sub[1]
                items == vals[e.i].v.items
                count == NatToBits(Len(items))
            IN  /\ sizes[e.i] = 4 + size_uint(count)
                                  + Sum([x \in 1..Len(items) |-> Size(et, items[x])])
                /\ e.op = "marshal" =>
                     /\ e.r.err = OK
                     /\ SubSeq(e.r.b, e.c + 1, e.r.n) =
                          EncodingOf(TUint, UIntV(count))
                          \o Concat([x \in 1..Len(items) |-> EncodingOf(et, items[x])])
                          \o <<1, 1, 1, 1>>
                /\ e.op = "unmarshal" =>
                     /\ e.r.err = OK
                     /\ e.r.calls = Len(items)
                     /\ e.r.v = vals[e.i].v
                     /\ e.r.n = e.c + sizes[e.i]

C10_Witness ==
    /\ phase = "done"
    /\ vals = <<TV(SliceOf(TString), ListV(<<Str_a, Str_b, Str_c>>))>>
    /\ base = 0 /\ slack = 0
    /\ buf = <<3, 1, 97, 1, 98, 1, 99, 1, 1, 1, 1>>
    /\ log[3].r.v.items = <<Str_a, Str_b, Str_c>>
    /\ log[3].r.calls = 3

(* C9: skip_slice / unmarshal_slice (skip_map / unmarshal_map) run on a    *)
(* proper prefix of the encoding of a slice (map) of strings fail with     *)
(* BUF_TOO_SMALL: they never succeed and never report OVERFLOW.            *)
C9_TruncatedContainerFails ==
    cut > 0 =>
        \A k \in Decoded :
            IsStringContainer(vals[log[k].i]) => log[k].r.err = BUF_TOO_SMALL

C9_Witness ==
    /\ phase = "done"
    /\ cut = 1
    /\ vals[1].t = MapOf(TString, TString)
    /\ vals[1].v = DictV(<<PairV(Str_a, Str_b)>>)
    /\ log[2].op = "skip" /\ log[2].r.err = BUF_TOO_SMALL
    /\ log[3].op = "unmarshal" /\ log[3].r.err = BUF_TOO_SMALL

(* C8: in ports/python/std.py, for every list marshalled by marshal_slice  *)
(* and every dict marshalled by marshal_map into a buffer of exactly       *)
(* size_slice / size_map bytes, skip_slice(0, buf) and skip_map(0, buf)    *)
(* return len(buf).                                                        *)
C8_PortsSkipConsumesContainer ==
    \A j \in Marshalled, k \in Calls("skip") :
        (/\ impl = "ports"
         /\ Len(vals) = 1 /\ base = 0 /\ slack = 0
         /\ vals[1].t.k \in {"slice", "map"}
         /\ log[j].r.err = OK
         /\ Len(buf) = sizes[1]) =>
            /\ log[k].r.err = OK
            /\ log[k].r.n = Len(buf)

(* C11: in bstd.py, for every map m (its keys distinct), size_map(m) is    *)
(* 4 + size_uint(len(m)) + the key and value sizes of its entries;         *)
(* marshal_map writes the count, the key-then-value pairs in iteration     *)
(* order and 01 01 01 01; skip_map over that buffer advances by exactly    *)
(* size_map(m); and unmarshal_map returns a map equal to m.                *)
C11_MapLayoutAndRoundTrip ==
    \A k \in 1..Len(log) :
        vals[log[k].i].t.k = "map" =>
            LET e == log[k]
                kt == vals[e.i].t.sub[1]
                vt == vals[e.i].t.sub[2]
                pairs == vals[e.i].v.items
                count == NatToBits(Len(pairs))
            IN  /\ sizes[e.i] = 4 + size_uint(count)
                                  + Sum([x \in 1..Len(pairs) |->
                                          Size(kt, pairs[x].items[1])
                                          + Size(vt, pairs[x].items[2])])
                /\ e.r.err = OK
                /\ e.r.n = e.c + sizes[e.i]
                /\ e.op = "marshal" =>
                     SubSeq(e.r.b, e.c + 1, e.r.n) =
                         EncodingOf(TUint, UIntV(count))
                         \o Concat([x \in 1..Len(pairs) |->
                                     EncodingOf(kt, pairs[x].items[1])
                                     \o EncodingOf(vt, pairs[x].items[2])])
                         \o <<1, 1, 1, 1>>
                /\ e.op = "skip" => e.r.calls = 2 * Len(pairs)
                /\ e.op = "unmarshal" => e.r.v = vals[e.i].v

C11_Witness ==
    /\ phase = "done"
    /\ vals = <<TV(MapOf(TString, TString), DictV(<<PairV(Str_k1, Str_v1), PairV(Str_k2, Str_v2)>>))>>
    /\ base = 0 /\ slack = 0
    /\ buf = <<2, 2, 107, 49, 2, 118, 49, 2, 107, 50, 2, 118, 50, 1, 1, 1, 1>>
    /\ log[2].op = "skip" /\ log[2].r.n = 17
    /\ log[3].r.v = vals[1].v

\* the index of the last pair of pairs whose key is key
LastOf(pairs, key) ==
    CHOOSE x \in 1..Len(pairs) :
        /\ pairs[x].items[1] = key
        /\ \A y \in (x + 1)..Len(pairs) : pairs[y].items[1] # key

WireKeySet(pairs) == {pairs[x].items[1] : x \in 1..Len(pairs)}

(* C12: when the wire encoding of a map declares count pairs and a key     *)
(* occurs more than once, unmarshal_map (bstd.py and ports std.py) does    *)
(* not fail: it consumes all count pairs, returns the offset after the     *)
(* terminator, and the decoded map holds for every key the value of its    *)
(* last occurrence on the wire, so it has fewer than count entries.        *)
C12_DuplicateKeysLastWins ==
    \A k \in Calls("unmarshal") :
        LET e == log[k]
            pairs == vals[e.i].v.items
            got == e.r.v.items
        IN  /\ e.r.err = OK
            /\ e.r.calls = 2 * Len(pairs)
            /\ e.r.n = Len(buf)
            /\ e.r.v.tag = "dict"
            /\ {got[x].items[1] : x \in 1..Len(got)} = WireKeySet(pairs)
            /\ Len(got) = Cardinality(WireKeySet(pairs))
            /\ \A x \in 1..Len(got) :
                 got[x].items[2] = pairs[LastOf(pairs, got[x].items[1])].items[2]
            /\ Cardinality(WireKeySet(pairs)) < Len(pairs) => Len(got) < Len(pairs)

C12_Witness ==
    /\ phase = "done"
    /\ impl = "bstd"
    /\ base = 1
    /\ vals[1].v = ListV(<<PairV(Str_a, Str_v1), PairV(Str_b, Str_v2), PairV(Str_a, Str_v2)>>)
    /\ log[2].op = "unmarshal"
    /\ log[2].r.v = DictV(<<PairV(Str_a, Str_v2), PairV(Str_b, Str_v2)>>)
    /\ log[2].r.n = Len(buf)

\* the payload bytes of a string or byte string on the wire
PayloadOf(e) == IF e.t = TString THEN Utf8Encode(e.v.s) ELSE e.v.s

(* C13: in bstd.py, for every string s and byte string bs (the empty one   *)
(* and payloads of 127, 128, 16383, 16384 and 65537 bytes included), the   *)
(* size is the payload's byte length L (the UTF-8 length for a string)     *)
(* plus size_uint(L), the encoding is the varint of L followed by the L    *)
(* payload bytes, and unmarshal_string / unmarshal_bytes return the        *)
(* original value with offset cursor + size.                               *)
C13_StringLayoutAndRoundTrip ==
    \A k \in 1..Len(log) :
        vals[log[k].i].t \in {TString, TBytes} =>
            LET e == log[k]
                payload == PayloadOf(vals[e.i])
                L == Len(payload)
            IN  /\ sizes[e.i] = L + size_uint(NatToBits(L))
                /\ e.r.err = OK
                /\ e.r.n = e.c + sizes[e.i]
                /\ e.op = "marshal" =>
                     SubSeq(e.r.b, e.c + 1, e.r.n) = EncodingOf(TUint, NatV(L)) \o payload
                /\ e.op = "unmarshal" => e.r.v = vals[e.i].v

C13_Witness ==
    /\ phase = "done"
    /\ vals[1].t = TString
    /\ Len(vals[1].v.s) = 16384
    /\ sizes = <<16387>>
    /\ base = 1
    /\ SubSeq(buf, 2, 5) = <<128, 128, 1, 72>>
    /\ log[3].op = "unmarshal"
    /\ log[3].r.v = vals[1].v
    /\ log[3].r.n = 16388

(* C14: in ports/python/std.py, for every string s (strings with           *)
(* characters of more than one UTF-8 byte included), marshal_string into   *)
(* a buffer of size_string(s) bytes returns size_string(s) and leaves the  *)
(* buffer that long, skip_string then returns len(buffer), and             *)
(* unmarshal_string returns s.                                             *)
C14_PortsStringRoundTrip ==
    \A k \in 1..Len(log) :
        (/\ impl = "ports"
         /\ vals[log[k].i].t = TString
         /\ base = 0 /\ slack = 0) =>
            LET e == log[k] IN
            /\ e.r.err = OK
            /\ e.r.n = sizes[e.i]
            /\ Len(e.r.b) = sizes[e.i]
            /\ e.r.n = Len(buf)
            /\ e.op = "unmarshal" => e.r.v = vals[e.i].v

(* C15: for unmarshal_string, unmarshal_bytes, skip_string and skip_bytes, *)
(* whenever the decoded length prefix is greater than the number of bytes  *)
(* remaining after the prefix the operation fails with BUF_TOO_SMALL, and  *)
(* whenever it is less than or equal the skip operation succeeds with      *)
(* offset = prefix end + length, whatever the payload bytes are.           *)
C15_LengthPrefixBounds ==
    \A k \in Decoded :
        LET e == log[k]
            declared == vals[e.i].v.mag
            payload == vals[e.i].v.s
            prefixEnd == e.c + size_uint(declared)
        IN  IF ~LeNat(declared, Len(payload))
            THEN e.r.err = BUF_TOO_SMALL
            ELSE /\ e.r.err # BUF_TOO_SMALL
                 /\ e.op = "skip" =>
                      /\ e.r.err = OK
                      /\ e.r.n = prefixEnd + BitsToNat(declared)
                 /\ (e.op = "unmarshal" /\ vals[e.i].t = TBytes) =>
                      /\ e.r.err = OK
                      /\ e.r.n = prefixEnd + BitsToNat(declared)
                      /\ e.r.v = BytesV(SubSeq(payload, 1, BitsToNat(declared)))

C15_Witness ==
    /\ phase = "done"
    /\ vals = <<TV(TString, WireV(NatToBits(2), <<65, 255, 195>>))>>
    /\ base = 1
    /\ buf = <<0, 2, 65, 255, 195>>
    /\ log[1].op = "skip" /\ log[1].r.err = OK /\ log[1].r.n = 4
    /\ log[2].op = "unmarshal" /\ log[2].r.err = UnicodeDecodeError

(* C16: in bstd.py, for every fixed-width codec of width w (bool, byte,    *)
(* int8, int16, uint16, int32, uint32, int64, uint64, float32, float64)    *)
(* and every cursor c >= 0, marshal, unmarshal and skip fail with          *)
(* BUF_TOO_SMALL exactly when len(buffer) - c < w, and otherwise succeed   *)
(* returning c + w.                                                        *)
C16_FixedWidthBounds ==
    \A k \in 1..Len(log) :
        vals[log[k].i].t.k \in FixedWidthKinds =>
            LET e == log[k]
                w == WidthOf(vals[e.i].t.k)
            IN  IF Len(buf) - e.c < w
                THEN e.r.err = BUF_TOO_SMALL
                ELSE e.r.err = OK /\ e.r.n = e.c + w

C16_Witness ==
    /\ phase = "done"
    /\ vals[1].t = Ty("float32")
    /\ base = 1
    /\ buf = <<255, 255, 255, 255>>
    /\ log[1].op = "skip" /\ log[1].r.err = BUF_TOO_SMALL
    /\ log[2].op = "unmarshal" /\ log[2].r.err = BUF_TOO_SMALL

\* v mod 2^(8w) for v in the range of width w
ModPow(v, w) == IF v.neg THEN BitsSub(Shl(<<1>>, 8 * w), v.mag) ELSE v.mag

\* byte k = floor((v mod 2^(8w)) / 2^(8k)) mod 256, for k in 0 .. w - 1
LittleEndian(v, w) ==
    LET m == ModPow(v, w)
    IN  [k \in 1..w |-> BitsToNat([q \in 1..8 |-> Bit(m, 8 * (k - 1) + q)])]

(* C17: for every width w in {2, 4, 8} and every integer v of the signed   *)
(* (resp. unsigned) range of that width, the marshalled bytes are the      *)
(* little-endian two's-complement representation of v, and unmarshal       *)
(* returns v; for int64 the shift-based functions of ports/python/std.py   *)
(* write the same 8 bytes and decode the same value as the to_bytes /      *)
(* from_bytes functions of bstd.py.                                        *)
C17_FixedIntLittleEndian ==
    \A k \in 1..Len(log) :
        LET e == log[k]
            v == vals[e.i].v
            w == Width(vals[e.i].t.k)
            signed == Signed(vals[e.i].t.k)
        IN  /\ e.r.err = OK
            /\ e.r.n = e.c + w
            /\ e.op = "marshal" =>
                 /\ SubSeq(e.r.b, e.c + 1, e.c + w) = LittleEndian(v, w)
                 /\ e.r.b = marshal_fixed(e.c, Zeros(Len(buf)), v, w, signed).b
            /\ e.op = "unmarshal" =>
                 /\ e.r.v = v
                 /\ e.r.v = unmarshal_fixed(e.c, buf, w, signed).v

C17_Witness ==
    /\ phase = "done"
    /\ impl = "ports"
    /\ vals = <<TV(Ty("int64"), IntV(TRUE, Pow2(63)))>>
    /\ base = 1
    /\ buf = <<0, 0, 0, 0, 0, 0, 0, 0, 128>>
    /\ log[3].op = "unmarshal"
    /\ log[3].r.v = IntV(TRUE, Pow2(63))


(* C18: in bstd.py and in ports/python/std.py, marshal_bool writes the     *)
(* byte 0x01 for True and 0x00 for False, and unmarshal_bool returns True  *)
(* exactly when the byte at the cursor is 1: every byte of 2..255 decodes  *)
(* as False without an error.                                              *)
C18_BoolEncoding ==
    \A k \in 1..Len(log) :
        LET e == log[k] IN
            /\ e.op = "marshal" =>
                 /\ e.r.err = OK
                 /\ e.r.n = e.c + 1
                 /\ e.r.b[e.c + 1] = (IF vals[e.i].v = BoolV(TRUE) THEN 1 ELSE 0)
            /\ e.op = "unmarshal" =>
                 /\ e.r.err = OK
                 /\ e.r.n = e.c + 1
                 /\ e.r.v = (IF buf[e.c + 1] = 1 THEN BoolV(TRUE) ELSE BoolV(FALSE))

C18_Witness ==
    /\ phase = "done"
    /\ impl = "ports"
    /\ buf = <<0, 255>>
    /\ log[2].op = "unmarshal"
    /\ log[2].c = 1
    /\ log[2].r.err = OK
    /\ log[2].r.v = BoolV(FALSE)


(* C19: in bstd.py, size_optional(None, sizer) is 1 and                    *)
(* size_optional(v, sizer) is 1 + sizer(v) for v not None (an empty string *)
(* included); marshal_optional writes the presence byte 0x00 alone for     *)
(* None and 0x01 followed by the encoding of v otherwise;                  *)
(* unmarshal_optional returns None, respectively v; and skip_optional      *)
(* returns the offset unmarshal_optional returns.                          *)
C19_OptionalLayoutAndRoundTrip ==
    \A k \in 1..Len(log) :
        vals[log[k].i].t.k = "optional" =>
            LET e == log[k]
                et == vals[e.i].t.sub[1]
                v == vals[e.i].v
            IN  /\ sizes[e.i] = (IF v = NoneV THEN 1 ELSE 1 + Size(et, v))
                /\ e.r.err = OK
                /\ e.op = "marshal" =>
                     SubSeq(e.r.b, e.c + 1, e.r.n) =
                         (IF v = NoneV THEN <<0>> ELSE <<1>> \o EncodingOf(et, v))
                /\ e.op = "unmarshal" => e.r.v = v
                /\ e.op = "skip" =>
                     e.r.n = unmarshal_optional(e.c, buf, et).n

C19_Witness ==
    /\ phase = "done"
    /\ vals = <<TV(OptionalOf(TString), NoneV), TV(OptionalOf(TString), StrV(<<>>))>>
    /\ base = 0
    /\ slack = 0
    /\ sizes = <<1, 2>>
    /\ buf = <<0, 1, 0>>
    /\ log[3].op = "skip" /\ log[3].r.n = 1
    /\ log[4].op = "skip" /\ log[4].r.n = 3
    /\ log[5].r.v = NoneV
    /\ log[6].r.v = StrV(<<>>)


(* C20: in bstd.py, every marshal operation called with a cursor c >= 0,   *)
(* an in-range value v and fewer than size(v) bytes between c and the end  *)
(* of the buffer fails with BUF_TOO_SMALL (a slice or a map also when only *)
(* its 4-byte terminator does not fit); no marshal returns an offset       *)
(* greater than len(buffer), and none changes len(buffer).                 *)
C20_MarshalNeedsRoom ==
    \A k \in 1..Len(log) :
        log[k].op = "marshal" =>
            LET e == log[k]
                length == base + sizes[e.i] + slack
            IN  /\ length - e.c < sizes[e.i] => e.r.err = BUF_TOO_SMALL
                /\ e.r.err = OK => e.r.n <= length
                /\ Len(e.r.b) = length

C20_Witness ==
    /\ phase = "failed"
    /\ vals[1].t = SliceOf(TString)
    /\ vals[1].v.items # <<>>
    /\ base = 1
    /\ slack = -1
    /\ log[1].op = "marshal"
    /\ log[1].r.err = BUF_TOO_SMALL
    /\ log[1].r.b = Zeros(1)
                    \o SubSeq(EncodingOf(vals[1].t, vals[1].v), 1, sizes[1] - 4)
                    \o Zeros(3)


(* C21: in ports/python/std.py, marshal_uint, marshal_int, marshal_string, *)
(* marshal_bytes, marshal_slice and marshal_map called with fewer bytes    *)
(* remaining in the buffer than the size of the value fail with            *)
(* BUF_TOO_SMALL: none succeeds with an offset beyond the original length  *)
(* of the buffer, and none changes the length of the buffer.               *)
C21_PortsMarshalNeedsRoom ==
    impl = "ports" =>
        \A k \in 1..Len(log) :
            LET e == log[k]
                original == base + sizes[e.i] + slack
                remaining == original - e.c
            IN  e.op = "marshal" =>
                    /\ remaining < sizes[e.i] => e.r.err = BUF_TOO_SMALL
                    /\ ~(e.r.err = OK /\ e.r.n > original)
                    /\ Len(e.r.b) = original


\* the number of bits needed to write the magnitude x in binary
BitLength(x) == Len(Norm(x))

(* C22 as stated: for every unsigned v in 0..2^64-1,                       *)
(* size_uint(v) = 1 + floor(bitlength(v) / 7).                             *)
C22_SizeUintFloorFormula ==
    \A i \in 1..Len(sizes) :
        vals[i].t = TUint => sizes[i] = 1 + (BitLength(vals[i].v.mag) \div 7)

(* C22, amended: for every unsigned v in 0..2^64-1, size_uint(v) is 1 for  *)
(* v = 0 and ceil(bitlength(v) / 7) = 1 + floor((bitlength(v) - 1) / 7)    *)
(* otherwise, in bstd.py and in ports/python/std.py.                       *)
C22_SizeUintCeilFormula ==
    \A i \in 1..Len(sizes) :
        vals[i].t = TUint =>
            LET L == BitLength(vals[i].v.mag)
            IN  sizes[i] = (IF L = 0 THEN 1 ELSE 1 + ((L - 1) \div 7))

C22_Witness ==
    /\ phase = "done"
    /\ impl = "ports"
    /\ vals = <<TV(TUint, UIntV(NatToBits(127)))>>
    /\ BitLength(vals[1].v.mag) = 7
    /\ sizes = <<1>>
    /\ buf = <<127>>


(* C23: size_time is 8; marshal_time called with a datetime that carries   *)
(* no timezone fails with ValueError before writing anything, so every     *)
(* byte of the buffer keeps its value; skip_time and unmarshal_time fail   *)
(* with BUF_TOO_SMALL exactly when fewer than 8 bytes remain, and          *)
(* skip_time otherwise returns cursor + 8.                                 *)
C23_TimeContract ==
    /\ \A i \in 1..Len(sizes) : vals[i].t = Ty("time") => sizes[i] = 8
    /\ \A k \in 1..Len(log) :
        LET e == log[k] IN
        vals[e.i].t = Ty("time") =>
            /\ (e.op = "marshal" /\ vals[e.i].v.s = <<0>>) =>
                 /\ e.r.err = ValueError
                 /\ e.r.b = Rep(255, base + sizes[e.i] + slack)
            /\ e.op \in {"skip", "unmarshal"} =>
                 IF Len(buf) - e.c < 8
                 THEN e.r.err = BUF_TOO_SMALL
                 ELSE e.r.err = OK /\ (e.op = "skip" => e.r.n = e.c + 8)

C23_Witness ==
    /\ phase = "failed"
    /\ vals = <<TV(Ty("time"), TimeV(FALSE, IntV(FALSE, Pow2(60))))>>
    /\ base = 1
    /\ slack = 0
    /\ log[1].op = "marshal"
    /\ log[1].r.err = ValueError
    /\ buf = Rep(255, 9)


(* C24: every value a successful unmarshal_uint returns lies in            *)
(* 0..2^64-1, and every value a successful unmarshal_int returns lies in   *)
(* -2^63..2^63-1, whatever the buffer holds: no byte sequence that decodes *)
(* to more than 64 bits is accepted.                                       *)
C24_DecodedVarintFitsIn64Bits ==
    \A k \in 1..Len(log) :
        LET e == log[k] IN
        (e.op = "unmarshal" /\ e.r.err = OK) =>
            /\ vals[e.i].t = TUint =>
                 ~e.r.v.neg /\ BitLength(e.r.v.mag) <= 64
            /\ vals[e.i].t = TInt =>
                 IF e.r.v.neg
                 THEN BitLength(e.r.v.mag) <= 63 \/ Norm(e.r.v.mag) = Pow2(63)
                 ELSE BitLength(e.r.v.mag) <= 63

C24_Witness ==
    /\ phase = "done"
    /\ vals[1].t = TUint
    /\ base = 0
    /\ buf = Run(255, 129, 9) \o <<1, 127>>
    /\ log[2].op = "unmarshal"
    /\ log[2].r.err = OK
    /\ log[2].r.n = 10
    /\ BitLength(log[2].r.v.mag) = 64


(* C25: in bstd.py, every successful unmarshal or skip operation, of any   *)
(* codec (slices, maps and optionals over built-in element codecs          *)
(* included), called with a cursor c in 0..len(buffer) returns an offset   *)
(* c' with c < c' <= len(buffer); so the cursor strictly increases across  *)
(* successful decode calls and never passes the end of the buffer.         *)
C25_DecodeAdvancesWithinBuffer ==
    \A k \in 1..Len(log) :
        LET e == log[k] IN
        (e.op \in {"skip", "unmarshal"} /\ e.r.err = OK /\ e.c <= Len(buf)) =>
            e.c < e.r.n /\ e.r.n <= Len(buf)

C25_Witness ==
    /\ phase = "done"
    /\ vals[1].t = SliceOf(TString)
    /\ base = 1
    /\ buf = <<0, 1, 0, 0, 0, 0, 0>>
    /\ log[1].op = "skip" /\ log[1].r.err = OK /\ log[1].r.n = 7
    /\ log[2].op = "unmarshal" /\ log[2].r.err = OK /\ log[2].r.n = 7
    /\ log[2].r.v = ListV(<<StrV(<<>>)>>)


(* C26: unmarshal_slice, skip_slice, unmarshal_map and skip_map terminate  *)
(* on every buffer, whatever count the buffer declares: with built-in      *)
(* element codecs the number of element-operation calls made before the    *)
(* operation returns or raises is at most the number of bytes between the  *)
(* cursor and the end of the buffer.                                       *)
C26_ContainerCallsBoundedByBytes ==
    \A k \in 1..Len(log) :
        LET e == log[k] IN
        vals[e.i].t.k \in {"slice", "map"} =>
            /\ e.r.calls <= Len(buf) - e.c
            /\ e.r.err \in {OK, BUF_TOO_SMALL, OVERFLOW, UnicodeDecodeError}

C26_Witness ==
    /\ phase = "done"
    /\ vals[1].t = SliceOf(TByte)
    /\ base = 0
    /\ buf = <<128, 128, 2, 0, 0, 0, 0>>
    /\ log[1].op = "skip" /\ log[1].r.err = BUF_TOO_SMALL /\ log[1].r.calls = 5
    /\ log[2].op = "unmarshal" /\ log[2].r.err = BUF_TOO_SMALL /\ log[2].r.calls = 5


(* C27: in bstd.py, unmarshal_slice, unmarshal_map, skip_slice and         *)
(* skip_map only require that 4 bytes remain after the last element: with  *)
(* the terminator 01 01 01 01 of a valid encoding replaced by any other    *)
(* four bytes, the returned offset and the decoded value are those of the  *)
(* valid encoding, and no error is raised.                                 *)
C27_TerminatorContentIgnored ==
    \A k \in 1..Len(log) :
        LET e == log[k]
            valid == Zeros(base) \o EncodingOf(vals[e.i].t, vals[e.i].v) \o Zeros(slack)
        IN  /\ e.r.err = OK
            /\ e.op = "skip" =>
                 e.r.n = Skip(vals[e.i].t, e.c, valid).n
            /\ e.op = "unmarshal" =>
                 /\ e.r.n = Unmarshal(vals[e.i].t, e.c, valid).n
                 /\ e.r.v = Unmarshal(vals[e.i].t, e.c, valid).v
                 /\ e.r.v = vals[e.i].v
            /\ e.r.n = e.c + sizes[e.i]

C27_Witness ==
    /\ phase = "done"
    /\ vals = <<TV(MapOf(TString, TString), DictV(<<PairV(Str_a, Str_b)>>))>>
    /\ base = 1
    /\ slack = 0
    /\ buf = <<0, 1, 1, 97, 1, 98, 128, 2, 3, 4>>
    /\ log[1].op = "skip" /\ log[1].r.n = 10
    /\ log[2].op = "unmarshal" /\ log[2].r.v = vals[1].v


(* C28: in bstd.py, a successful marshal of v at cursor c changes only the *)
(* bytes at positions c .. c + size(v) - 1: every byte before c and every  *)
(* byte at or after the returned offset keeps its value and len(buffer) is *)
(* unchanged; unmarshal and skip never modify the buffer.                  *)
C28_MarshalFrame ==
    \A k \in 1..Len(log) :
        LET e == log[k]
            length == base + sizes[e.i] + slack
        IN  /\ (e.op = "marshal" /\ e.r.err = OK) =>
                 /\ e.r.n = e.c + sizes[e.i]
                 /\ Len(e.r.b) = length
                 /\ \A p \in 1..length :
                      (p <= e.c \/ p > e.r.n) => e.r.b[p] = 170
            /\ e.op \in {"skip", "unmarshal"} => e.r.b = buf

C28_Witness ==
    /\ phase = "done"
    /\ vals = <<TV(SliceOf(TString), ListV(<<Str_a>>))>>
    /\ base = 1
    /\ slack = 1
    /\ buf = <<170, 1, 1, 97, 1, 1, 1, 1, 170>>
    /\ log[1].op = "marshal" /\ log[1].r.err = OK /\ log[1].r.n = 8
    /\ log[3].op = "unmarshal" /\ log[3].r.b = buf


\* b with every byte before position c and from position c2 on set to x
Outside(b, c, c2, x) == [p \in 1..Len(b) |-> IF p <= c \/ p > c2 THEN x ELSE b[p]]

\* buffers of length at least c2 that hold the bytes of b at positions c .. c2 - 1
Agreeing(b, c, c2) ==
    {SubSeq(b, 1, c2)}
    \cup {Outside(b, c, c2, x) : x \in {0, 1, 128, 255}}
    \cup {Outside(b, c, c2, x) \o <<x, 1, 1, 1, 1>> : x \in {0, 1, 128, 255}}

(* C29: in bstd.py, the result of a successful unmarshal or skip at cursor *)
(* c that returns offset c' depends only on the bytes at positions         *)
(* c .. c' - 1: on any two buffers of length at least c' that agree on     *)
(* those positions, the operation returns the same offset and the same     *)
(* value.                                                                  *)
C29_DecodeReadsOnlyConsumedBytes ==
    \A k \in 1..Len(log) :
        LET e == log[k] IN
        e.r.err = OK =>
            \A b2 \in Agreeing(buf, e.c, e.r.n) :
                /\ e.op = "skip" =>
                     LET r2 == Skip(vals[e.i].t, e.c, b2)
                     IN  r2.err = OK /\ r2.n = e.r.n
                /\ e.op = "unmarshal" =>
                     LET r2 == Unmarshal(vals[e.i].t, e.c, b2)
                     IN  r2.err = OK /\ r2.n = e.r.n /\ r2.v = e.r.v

C29_Witness ==
    /\ phase = "done"
    /\ vals[1].t = TString
    /\ base = 1
    /\ buf = <<128, 1, 2, 1, 1, 1, 1>>
    /\ log[2].op = "unmarshal"
    /\ log[2].r.err = OK
    /\ log[2].r.n = 3
    /\ log[2].r.v = StrV(<<2>>)
    /\ Unmarshal(TString, 1, <<255, 1, 2>>).v = StrV(<<2>>)


(* C30: in both implementations the signed varint operations are the       *)
(* unsigned ones composed with ZigZag: for every signed 64-bit v,          *)
(* size_int(v) = size_uint(encode_zigzag(v)) and marshal_int writes the    *)
(* bytes marshal_uint writes for encode_zigzag(v); and for every buffer    *)
(* and cursor, the hand-inlined unmarshal_int of ports/python/std.py and   *)
(* the composed unmarshal_int of bstd.py return the same offset and value  *)
(* or fail with the same error kind.                                       *)
C30_SignedVarintIsZigZagOfUnsigned ==
    /\ \A i \in 1..Len(sizes) :
         sizes[i] = size_uint(encode_zigzag(vals[i].v))
    /\ \A k \in 1..Len(log) :
        LET e == log[k] IN
            /\ e.op = "marshal" =>
                 LET u == MarshalOf(TUint, e.c, Zeros(Len(buf)),
                                    UIntV(encode_zigzag(vals[e.i].v)))
                 IN  e.r.err = u.err /\ e.r.n = u.n /\ e.r.b = u.b
            /\ e.op = "unmarshal" =>
                 LET p == ports_unmarshal_int(e.c, buf)
                     q == unmarshal_int(e.c, buf)
                 IN  /\ e.r = (IF impl = "ports" THEN p ELSE q)
                     /\ p.err = q.err
                     /\ p.err = OK => (p.n = q.n /\ p.v = q.v)

C30_Witness ==
    /\ phase = "done"
    /\ impl = "ports"
    /\ vals = <<TV(TInt, IntV(TRUE, Pow2(63)))>>
    /\ base = 0
    /\ sizes = <<10>>
    /\ buf = Rep(255, 9) \o <<1>>
    /\ log[3].op = "unmarshal"
    /\ log[3].r.v = IntV(TRUE, Pow2(63))

====
